---------------------------- MODULE Spec2Model ----------------------------
(***************************************************************************)
(* Graph toolkit: four graph representations (UnweightedGraph,             *)
(* WeightedGraph, AdjacencyList, AdjacencyMatrix) and the algorithms that  *)
(* run over them (Traversals, ShortestPaths, MSTs, Cycles, Cuts).          *)
(*                                                                         *)
(* The state is one graph object (the fields of the representation) and    *)
(* the outcome of the last algorithm call made on it.  Mutators            *)
(* (add_vertex, add_edge) and algorithm calls are the actions.             *)
(*                                                                         *)
(* Python containers are modelled by what they guarantee:                  *)
(*   dict / list  -> a sequence in insertion order                         *)
(*   set          -> a set; a loop over it runs in the order the hash      *)
(*                   table happens to give, which an algorithm call        *)
(*                   receives as the ranking h (any permutation of Keys)   *)
(***************************************************************************)
EXTENDS Integers, Sequences, FiniteSets, TLC

\* ------------------------------------------------------------------ bounds
MaxVertices == 3
MaxEdges == 2

\* vertex keys and edge weights the calls draw from
Keys == {-1, 0, 1, 2, 3}
Weights == {-1, 0, 1, 2, 3}

\* ------------------------------------------------------- program constants
\* Python's None, written as the integer the sort keys of the code use for it
None == -1000
maxsize == 999
inf == 1000

UG == "UnweightedGraph"
WG == "WeightedGraph"
AL == "AdjacencyList"
AM == "AdjacencyMatrix"
Types == {UG, WG, AL, AM}

VARIABLES type, directed, multiple_edges, default_weight,
          vertices, neighbors, adjacency_list, adjacency_matrix, result, other

graphVars == <<type, directed, multiple_edges, default_weight,
               vertices, neighbors, adjacency_list, adjacency_matrix>>
vars == <<type, directed, multiple_edges, default_weight,
          vertices, neighbors, adjacency_list, adjacency_matrix, result, other>>

\* ------------------------------------------------------------ sequences
Range(s) == {s[i] : i \in 1..Len(s)}

RECURSIVE SeqSum(_)
SeqSum(s) == IF s = <<>> THEN 0 ELSE Head(s) + SeqSum(Tail(s))

\* position of the first occurrence of x in s (0 when absent): list.index
RECURSIVE IndexOf(_, _)
IndexOf(s, x) ==
    IF s = <<>> THEN 0
    ELSE IF Head(s) = x THEN 1
    ELSE LET r == IndexOf(Tail(s), x) IN IF r = 0 THEN 0 ELSE r + 1

\* list.remove(x): drop the first occurrence
RemoveFirst(s, x) ==
    LET i == IndexOf(s, x)
    IN  IF i = 0 THEN s
        ELSE [j \in 1..(Len(s) - 1) |-> IF j < i THEN s[j] ELSE s[j + 1]]

Reverse(s) == [i \in 1..Len(s) |-> s[Len(s) + 1 - i]]

SetMin(S) == CHOOSE x \in S : \A y \in S : x <= y

\* the permutations of a finite set, as sequences
Perms(S) == {p \in [1..Cardinality(S) -> S] : \A i, j \in 1..Cardinality(S) : i # j => p[i] # p[j]}

\* iteration order of a Python set S under the hash ranking h
SetOrder(S, h) ==
    LET idx == {i \in 1..Len(h) : h[i] \in S}
        RECURSIVE Build(_)
        Build(I) == IF I = {} THEN <<>>
                    ELSE LET m == SetMin(I) IN <<h[m]>> \o Build(I \ {m})
    IN  Build(idx)

\* Python's ordering of two lists of integers
RECURSIVE ListLess(_, _)
ListLess(a, b) ==
    IF b = <<>> THEN FALSE
    ELSE IF a = <<>> THEN TRUE
    ELSE IF Head(a) # Head(b) THEN Head(a) < Head(b)
    ELSE ListLess(Tail(a), Tail(b))

\* sorted(): stable sort of a sequence of <<key, item>> pairs, key a list of integers
RECURSIVE InsertSorted(_, _)
InsertSorted(s, x) ==
    IF s = <<>> THEN <<x>>
    ELSE IF ListLess(x[1], Head(s)[1]) THEN <<x>> \o s
    ELSE <<Head(s)>> \o InsertSorted(Tail(s), x)

RECURSIVE SortPairs(_)
SortPairs(s) ==
    IF s = <<>> THEN <<>>
    ELSE InsertSorted(SortPairs(SubSeq(s, 1, Len(s) - 1)), s[Len(s)])

Items(s) == [i \in 1..Len(s) |-> s[i][2]]

\* sorted(S) for a set of integers
RECURSIVE SortedSet(_)
SortedSet(S) == IF S = {} THEN <<>> ELSE LET m == SetMin(S) IN <<m>> \o SortedSet(S \ {m})

\* ---------------------------------------------------------------- nodes
\* UnweightedGraphNode / WeightedGraphNode: the neighbors field is
\*   a set of keys                      (unweighted, simple)
\*   a dict key -> count                (unweighted, multiple edges)
\*   a dict key -> weight               (weighted, simple)
\*   a dict key -> list of weights      (weighted, multiple edges)
\* a dict is the sequence of its items [nbr, val] in insertion order
EmptyNeighbors(t, multi) == IF t = UG /\ ~multi THEN {} ELSE <<>>

DictKeys(d) == [i \in 1..Len(d) |-> d[i].nbr]
DictHas(d, k) == \E i \in 1..Len(d) : d[i].nbr = k
DictGet(d, k) == d[CHOOSE i \in 1..Len(d) : d[i].nbr = k].val
DictSet(d, k, x) ==
    IF DictHas(d, k) THEN [i \in 1..Len(d) |-> IF d[i].nbr = k THEN [nbr |-> k, val |-> x] ELSE d[i]]
    ELSE Append(d, [nbr |-> k, val |-> x])

is_neighbor(t, multi, nbs, nbr) ==
    IF t = UG /\ ~multi THEN nbr \in nbs ELSE DictHas(nbs, nbr)

\* insert_neighbor returns True (otherwise it raises NeighborAlreadyExistsError)
insert_neighbor_ok(t, multi, nbs, nbr) == multi \/ ~is_neighbor(t, multi, nbs, nbr)

insert_neighbor(t, multi, nbs, nbr, weight) ==
    IF t = UG
    THEN IF ~multi THEN nbs \cup {nbr}
         ELSE IF ~DictHas(nbs, nbr) THEN DictSet(nbs, nbr, 1)
         ELSE DictSet(nbs, nbr, DictGet(nbs, nbr) + 1)
    ELSE IF ~multi THEN DictSet(nbs, nbr, weight)
         ELSE IF ~DictHas(nbs, nbr) THEN DictSet(nbs, nbr, <<weight>>)
         ELSE DictSet(nbs, nbr, Append(DictGet(nbs, nbr), weight))

\* ------------------------------------------------------ adjacency matrix
\* AdjacencyMatrix.vertices is a dict key -> row/column index: the sequence
\* of its keys in insertion order, the index of a key being its position - 1
VertexKeys == IF type = AM THEN Range(vertices) ELSE vertices
NumVertices == IF type = AM THEN Len(vertices) ELSE Cardinality(vertices)
Index(k) == IndexOf(vertices, k) - 1
Cell(k1, k2) == adjacency_matrix[Index(k1) + 1][Index(k2) + 1]

update_weight(weight) ==
    IF weight = None THEN 1
    ELSE IF weight >= 0 THEN weight + 2
    ELSE weight

SetCell(m, i, j, x) == [m EXCEPT ![i + 1][j + 1] = x]

\* ------------------------------------------------------------------ Init
\* a freshly constructed graph: its class and the constructor's two flags
\* The second graph object of the caller, the argument of union: its vertices,
\* its neighbors or adjacency_list, its multiple_edges flag (its class and its
\* directed flag are those of the first graph), and the keys whose node object
\* (node graphs) or neighbor list object (adjacency lists) is one and the same
\* object in both graphs.
NoOther ==
    [vertices |-> {}, neighbors |-> <<>>, adjacency_list |-> <<>>,
     multiple_edges |-> FALSE, shared |-> {}]

Construct(T, D, M) ==
    /\ type \in T
    /\ directed \in D
    /\ multiple_edges \in (IF type = AM THEN {FALSE} ELSE M)
    /\ default_weight = 0
    /\ vertices = IF type = AM THEN <<>> ELSE {}
    /\ neighbors = <<>>
    /\ adjacency_list = <<>>
    /\ adjacency_matrix = <<>>
    /\ result = [op |-> "none"]
    /\ other = NoOther

Init == Construct(Types, BOOLEAN, BOOLEAN)

\* An algorithm call leaves the graph as it is, so mutating after a call reaches
\* the graphs that mutating before it reaches: the mutators are taken from the
\* states where no call is recorded, and a recorded call ends the run.
NoCall == result.op = "none"

\* ------------------------------------------------------------ add_vertex
add_vertex(vertex) ==
    /\ vertex \notin VertexKeys
    /\ CASE type \in {UG, WG} ->
              /\ vertices' = vertices \cup {vertex}
              /\ neighbors' = neighbors @@ (vertex :> EmptyNeighbors(type, multiple_edges))
              /\ UNCHANGED <<adjacency_list, adjacency_matrix>>
         [] type = AL ->
              /\ adjacency_list' = adjacency_list @@ (vertex :> <<>>)
              /\ vertices' = vertices \cup {vertex}
              /\ UNCHANGED <<neighbors, adjacency_matrix>>
         [] type = AM ->
              /\ vertices' = Append(vertices, vertex)
              /\ adjacency_matrix' =
                    LET n == Len(vertices)
                    IN  [i \in 1..(n + 1) |-> [j \in 1..(n + 1) |->
                            IF i <= n /\ j <= n THEN adjacency_matrix[i][j] ELSE 0]]
              /\ UNCHANGED <<neighbors, adjacency_list>>
    /\ result' = [op |-> "none"]
    /\ UNCHANGED <<type, directed, multiple_edges, default_weight, other>>

\* -------------------------------------------------------------- add_edge
\* number of neighbor entries the representation holds
RECURSIVE SumOver(_, _)
SumOver(S, f) == IF S = {} THEN 0 ELSE LET x == CHOOSE y \in S : TRUE IN f[x] + SumOver(S \ {x}, f)

NodeEntries(nbs) ==
    IF type = UG /\ ~multiple_edges THEN Cardinality(nbs)
    ELSE IF type = UG THEN SeqSum([i \in 1..Len(nbs) |-> nbs[i].val])
    ELSE IF ~multiple_edges THEN Len(nbs)
    ELSE SeqSum([i \in 1..Len(nbs) |-> Len(nbs[i].val)])

NumEntries ==
    CASE type \in {UG, WG} -> SumOver(vertices, [v \in vertices |-> NodeEntries(neighbors[v])])
      [] type = AL -> SumOver(vertices, [v \in vertices |-> Len(adjacency_list[v])])
      [] type = AM -> Cardinality({p \in (1..Len(vertices)) \X (1..Len(vertices)) :
                                      adjacency_matrix[p[1]][p[2]] # 0})

EdgeRoom(vertex1, vertex2, maxE) ==
    NumEntries + (IF directed \/ vertex1 = vertex2 THEN 1 ELSE 2)
        <= maxE * (IF directed THEN 1 ELSE 2)

\* BaseGraph.add_edge, reached through UnweightedGraph.add_edge (which drops
\* the weight) and WeightedGraph.add_edge (which replaces None by default_weight)
graph_add_edge(vertex1, vertex2, weight) ==
    LET w == IF type = UG THEN None ELSE IF weight = None THEN default_weight ELSE weight
        mirror == ~directed /\ vertex1 # vertex2
        n2 == IF mirror
              THEN [neighbors EXCEPT ![vertex2] =
                        insert_neighbor(type, multiple_edges, @, vertex1, w)]
              ELSE neighbors
    IN  /\ type \in {UG, WG}
        /\ mirror => insert_neighbor_ok(type, multiple_edges, neighbors[vertex2], vertex1)
        /\ insert_neighbor_ok(type, multiple_edges, n2[vertex1], vertex2)
        /\ neighbors' = [n2 EXCEPT ![vertex1] =
                            insert_neighbor(type, multiple_edges, @, vertex2, w)]
        /\ UNCHANGED <<vertices, adjacency_list, adjacency_matrix>>

list_add_edge(vertex1, vertex2, weight) ==
    LET l1 == IF ~directed /\ vertex1 # vertex2
              THEN [adjacency_list EXCEPT ![vertex2] = Append(@, <<vertex1, weight>>)]
              ELSE adjacency_list
    IN  /\ type = AL
        /\ multiple_edges \/ \A i \in 1..Len(adjacency_list[vertex1]) :
                                  adjacency_list[vertex1][i][1] # vertex2
        /\ adjacency_list' = [l1 EXCEPT ![vertex1] = Append(@, <<vertex2, weight>>)]
        /\ UNCHANGED <<vertices, neighbors, adjacency_matrix>>

matrix_add_edge(vertex1, vertex2, weight) ==
    LET m1 == SetCell(adjacency_matrix, Index(vertex1), Index(vertex2), update_weight(weight))
    IN  /\ type = AM
        /\ Cell(vertex1, vertex2) = 0
        /\ adjacency_matrix' =
              IF ~directed /\ vertex1 # vertex2 /\ Cell(vertex2, vertex1) = 0
              THEN SetCell(m1, Index(vertex2), Index(vertex1), update_weight(weight))
              ELSE m1
        /\ UNCHANGED <<vertices, neighbors, adjacency_list>>

\* the calls of add_edge that return True
add_edge(vertex1, vertex2, weight) ==
    /\ vertex1 \in VertexKeys
    /\ vertex2 \in VertexKeys
    /\ \/ graph_add_edge(vertex1, vertex2, weight)
       \/ list_add_edge(vertex1, vertex2, weight)
       \/ matrix_add_edge(vertex1, vertex2, weight)
    /\ result' = [op |-> "none"]
    /\ UNCHANGED <<type, directed, multiple_edges, default_weight, other>>

\* weights a caller can pass: every representation accepts weight=None
WeightArgs(W) == IF type = UG THEN {None} ELSE W

\* a client growing a graph with keys K and weights W, up to maxV vertices and
\* maxE edges
Grow(K, W, maxV, maxE) ==
    /\ NoCall
    /\ \/ \E k \in K : NumVertices < maxV /\ add_vertex(k)
       \/ \E k1 \in K, k2 \in K, w \in WeightArgs(W) :
             /\ k1 \in VertexKeys /\ k2 \in VertexKeys
             /\ EdgeRoom(k1, k2, maxE)
             /\ add_edge(k1, k2, w)

Build == Grow(Keys, Weights \cup {None}, MaxVertices, MaxEdges)

\* ------------------------------------------------------- call outcomes
Return(x) == [ok |-> TRUE, err |-> "", val |-> x]
Raise(e) == [ok |-> FALSE, err |-> e, val |-> <<>>]

\* the hash rankings a call may meet: the orders of the keys present
HashOrders == Perms(VertexKeys)

\* --------------------------------------------------------- get_neighbors
\* UnweightedGraphNode.get_neighbors: list(set) or list(dict.keys())
unweighted_get_neighbors(h, node) ==
    IF ~multiple_edges THEN SetOrder(neighbors[node], h) ELSE DictKeys(neighbors[node])

\* WeightedGraphNode.get_neighbors: [[neighbor, weight or list of weights], ...]
weighted_get_neighbors(node) == neighbors[node]

\* the sort key of a weight of a WeightedGraphNode item: an int or a list of ints
WeightKey(val) == IF multiple_edges THEN val ELSE <<val>>

\* decoding of a matrix cell, as in get_vertex and _get_neighbors
decode_cell(cell) ==
    IF cell = 1 THEN None
    ELSE IF cell > 0 THEN cell - 2 ELSE cell

\* the [key, weight] pairs of a matrix row, in column order
matrix_row_neighbors(node) ==
    LET row == adjacency_matrix[Index(node) + 1]
        RECURSIVE Scan(_)
        Scan(i) == IF i > Len(row) THEN <<>>
                   ELSE IF row[i] # 0
                        THEN <<<<vertices[i], decode_cell(Cell(node, vertices[i]))>>>> \o Scan(i + 1)
                        ELSE Scan(i + 1)
    IN  Scan(1)

\* sorted(..., key=(weight with -maxsize for None, neighbor))
SortByWeightThenKey(pairs) ==
    Items(SortPairs([i \in 1..Len(pairs) |->
        << <<IF pairs[i][2] = None THEN -maxsize ELSE pairs[i][2], pairs[i][1]>>, pairs[i][1] >>]))

\* Traversals._get_neighbors (Cuts._get_neighbors is the same text)
_get_neighbors(h, node) ==
    CASE type = UG -> unweighted_get_neighbors(h, node)
      [] type = WG ->
            LET nb == weighted_get_neighbors(node)
            IN  Items(SortPairs([i \in 1..Len(nb) |-> <<WeightKey(nb[i].val), nb[i].nbr>>]))
      [] type = AL -> SortByWeightThenKey(adjacency_list[node])
      [] type = AM -> SortByWeightThenKey(matrix_row_neighbors(node))

\* ------------------------------------------------------ get_start_vertex
\* min over the vertices; for the matrix min(self.vertices, key=self.vertices.get)
get_start_vertex ==
    IF NumVertices = 0 THEN Raise("ValueError")
    ELSE IF type = AM THEN Return(vertices[1])
    ELSE Return(SetMin(vertices))

\* a Python truth test of an int-or-None argument
Truthy(x) == x # None /\ x # 0

\* Traversals._verify_root_node
_verify_root_node(start_node) ==
    IF Truthy(start_node)
    THEN IF start_node \in VertexKeys THEN Return(start_node)
         ELSE Raise("InvalidTraversalNodeError")
    ELSE get_start_vertex

\* --------------------------------------------------------------- bft, dft
RECURSIVE BftLoop(_, _, _)
BftLoop(h, visited, nbrs) ==
    IF nbrs = <<>> THEN visited
    ELSE LET temp_node == Head(nbrs)
         IN  IF temp_node \notin Range(visited)
             THEN BftLoop(h, Append(visited, temp_node), Tail(nbrs) \o _get_neighbors(h, temp_node))
             ELSE BftLoop(h, visited, Tail(nbrs))

bft(h, start_node) ==
    LET root == _verify_root_node(start_node)
    IN  IF ~root.ok THEN root
        ELSE LET visited == BftLoop(h, <<root.val>>, _get_neighbors(h, root.val))
             IN  IF Len(visited) # NumVertices THEN Raise("IncompleteTraversalError")
                 ELSE Return(visited)

RECURSIVE _dft_recurse(_, _, _)
_dft_recurse(h, node, visited) ==
    LET RECURSIVE Loop(_, _)
        Loop(nbrs, vis) ==
            IF nbrs = <<>> THEN vis
            ELSE IF Head(nbrs) \notin Range(vis)
                 THEN Loop(Tail(nbrs), _dft_recurse(h, Head(nbrs), vis))
                 ELSE Loop(Tail(nbrs), vis)
    IN  Loop(_get_neighbors(h, node), Append(visited, node))

dft(h, start_node) ==
    LET root == _verify_root_node(start_node)
    IN  IF ~root.ok THEN root
        ELSE LET visited == _dft_recurse(h, root.val, <<>>)
             IN  IF Len(visited) # NumVertices THEN Raise("IncompleteTraversalError")
                 ELSE Return(visited)

\* ---------------------------------------------------------------- Cycles
\* Cycles._get_neighbors: neighbor keys only
Cycles_get_neighbors(h, node) ==
    CASE type = UG -> unweighted_get_neighbors(h, node)
      [] type = WG -> LET nb == weighted_get_neighbors(node)
                      IN  Items(SortPairs([i \in 1..Len(nb) |-> << <<nb[i].nbr>>, nb[i].nbr >>]))
      [] type = AL -> SortByWeightThenKey(adjacency_list[node])
      [] type = AM -> SortByWeightThenKey(matrix_row_neighbors(node))

Found(visited, stack) == [found |-> TRUE, visited |-> visited, stack |-> stack]
NotFound(visited, stack) == [found |-> FALSE, visited |-> visited, stack |-> stack]

\* the graph nodes are objects: parent is None or a node (always true), and
\* "neighbor in visited" after the recursion compares a node with keys (never true)
RECURSIVE _undirected_graph_cycle_recurse(_, _, _, _)
_undirected_graph_cycle_recurse(h, node, visited0, parent) ==
    LET RECURSIVE Loop(_, _)
        Loop(nbrs, visited) ==
            IF nbrs = <<>> THEN NotFound(visited, <<>>)
            ELSE LET neighbor == Head(nbrs)
                 IN  IF neighbor \notin Range(visited)
                     THEN LET r == _undirected_graph_cycle_recurse(h, neighbor, visited, node)
                          IN  IF r.found THEN r ELSE Loop(Tail(nbrs), r.visited)
                     ELSE IF parent # None /\ parent # neighbor
                     THEN Found(Append(visited, neighbor), <<>>)
                     ELSE IF multiple_edges
                             /\ \/ type = WG /\ Len(DictGet(neighbors[node], neighbor)) > 1
                                \/ type = UG /\ DictGet(neighbors[node], neighbor) > 1
                                \/ node = neighbor
                     THEN Found(Append(visited, neighbor), <<>>)
                     ELSE Loop(Tail(nbrs), visited)
    IN  Loop(Cycles_get_neighbors(h, node), Append(visited0, node))

RECURSIVE _directed_graph_cycle_recurse(_, _, _, _)
_directed_graph_cycle_recurse(h, node, visited0, recursion_stack0) ==
    LET RECURSIVE Loop(_, _, _)
        Loop(nbrs, visited, recursion_stack) ==
            IF nbrs = <<>> THEN NotFound(visited, RemoveFirst(recursion_stack, node))
            ELSE LET neighbor == Head(nbrs)
                 IN  IF neighbor \notin Range(visited)
                     THEN LET r == _directed_graph_cycle_recurse(h, neighbor, visited, recursion_stack)
                          IN  IF r.found THEN r ELSE Loop(Tail(nbrs), r.visited, r.stack)
                     ELSE IF neighbor \in Range(recursion_stack)
                     THEN Found(Append(visited, neighbor), recursion_stack)
                     ELSE Loop(Tail(nbrs), visited, recursion_stack)
    IN  Loop(Cycles_get_neighbors(h, node), Append(visited0, node), Append(recursion_stack0, node))

\* visited[visited.index(visited[-1]):]
CycleSlice(visited) == SubSeq(visited, IndexOf(visited, visited[Len(visited)]), Len(visited))

_graph_cycle(h) ==
    LET RECURSIVE Roots(_, _, _)
        Roots(nodes, visited, recursion_stack) ==
            IF nodes = <<>> THEN <<FALSE, <<None>>>>
            ELSE IF Head(nodes) \in Range(visited) THEN Roots(Tail(nodes), visited, recursion_stack)
            ELSE LET r == IF ~directed
                          THEN _undirected_graph_cycle_recurse(h, Head(nodes), visited, None)
                          ELSE _directed_graph_cycle_recurse(h, Head(nodes), visited, recursion_stack)
                 IN  IF r.found THEN <<TRUE, CycleSlice(r.visited)>>
                     ELSE Roots(Tail(nodes), r.visited, IF directed THEN r.stack ELSE recursion_stack)
    IN  Roots(SortedSet(vertices), <<>>, <<>>)

\* the adjacency keys are ints: parent 0 is false, and the neighbor is taken out
\* of visited again after an unsuccessful recursion
RECURSIVE _undirected_adjacency_cycle_recurse(_, _, _)
_undirected_adjacency_cycle_recurse(node, visited0, parent) ==
    LET RECURSIVE Loop(_, _)
        Loop(nbrs, visited) ==
            IF nbrs = <<>> THEN NotFound(visited, <<>>)
            ELSE LET neighbor == Head(nbrs)
                 IN  IF neighbor \notin Range(visited)
                     THEN LET r == _undirected_adjacency_cycle_recurse(neighbor, visited, node)
                          IN  IF r.found THEN r ELSE Loop(Tail(nbrs), RemoveFirst(r.visited, neighbor))
                     ELSE IF Truthy(parent) /\ parent # neighbor
                     THEN Found(Append(visited, neighbor), <<>>)
                     ELSE IF multiple_edges
                             /\ \/ Cardinality({i \in 1..Len(adjacency_list[node]) :
                                                  adjacency_list[node][i][1] = neighbor}) > 1
                                \/ node = neighbor
                     THEN Found(Append(visited, neighbor), <<>>)
                     ELSE Loop(Tail(nbrs), visited)
    IN  Loop(Cycles_get_neighbors(<<>>, node), Append(visited0, node))

RECURSIVE _directed_adjacency_cycle_recurse(_, _, _)
_directed_adjacency_cycle_recurse(node, visited0, recursion_stack0) ==
    LET RECURSIVE Loop(_, _, _)
        Loop(nbrs, visited, recursion_stack) ==
            IF nbrs = <<>> THEN NotFound(visited, RemoveFirst(recursion_stack, node))
            ELSE LET neighbor == Head(nbrs)
                 IN  IF neighbor \notin Range(visited)
                     THEN LET r == _directed_adjacency_cycle_recurse(neighbor, visited, recursion_stack)
                          IN  IF r.found THEN r
                              ELSE Loop(Tail(nbrs), RemoveFirst(r.visited, neighbor), r.stack)
                     ELSE IF neighbor \in Range(recursion_stack)
                     THEN Found(Append(visited, neighbor), recursion_stack)
                     ELSE Loop(Tail(nbrs), visited, recursion_stack)
    IN  Loop(Cycles_get_neighbors(<<>>, node), Append(visited0, node), Append(recursion_stack0, node))

_adjacency_cycle ==
    LET RECURSIVE Roots(_, _, _)
        Roots(nodes, visited, recursion_stack) ==
            IF nodes = <<>> THEN <<FALSE, None>>
            ELSE IF Head(nodes) \in Range(visited) THEN Roots(Tail(nodes), visited, recursion_stack)
            ELSE LET r == IF ~directed
                          THEN _undirected_adjacency_cycle_recurse(Head(nodes), visited, None)
                          ELSE _directed_adjacency_cycle_recurse(Head(nodes), visited, recursion_stack)
                 IN  IF r.found THEN <<TRUE, CycleSlice(r.visited)>>
                     ELSE Roots(Tail(nodes), r.visited, IF directed THEN r.stack ELSE recursion_stack)
    IN  Roots(SortedSet(VertexKeys), <<>>, <<>>)

\* a cycle detection that finds nothing
no_cycle(h) == Return(<<FALSE, <<None>>>>)

detect_cycle(h) ==
    IF type \in {UG, WG} THEN Return(_graph_cycle(h)) ELSE Return(_adjacency_cycle)

\* ------------------------------------------------------------ topological
\* "node not in stack" compares a graph node object with the keys on the stack,
\* which is never an equality: a graph node is pushed on every call
RECURSIVE _topological_recurse(_, _, _, _)
_topological_recurse(h, node, visited0, stack0) ==
    LET RECURSIVE Loop(_, _, _)
        Loop(nbrs, visited, stack) ==
            IF nbrs = <<>>
            THEN [visited |-> visited,
                  stack |-> IF (type \in {UG, WG} /\ node \notin Range(stack))
                               \/ (type \in {UG, WG} \/ node \notin Range(stack))
                            THEN Append(stack, node) ELSE stack]
            ELSE IF Head(nbrs) \notin Range(visited)
                 THEN LET r == _topological_recurse(h, Head(nbrs), visited, stack)
                      IN  Loop(Tail(nbrs), r.visited, r.stack)
                 ELSE Loop(Tail(nbrs), visited, stack)
    IN  Loop(_get_neighbors(h, node), Append(visited0, node), stack0)

topological(h) ==
    IF ~directed THEN Raise("UnsupportedGraphTypeError")
    ELSE IF detect_cycle(h).val[1] THEN Raise("UnsupportedGraphTypeError")
    ELSE LET RECURSIVE Each(_, _, _)
             Each(vs, visited, stack) ==
                 IF vs = <<>> THEN stack
                 ELSE LET r == _topological_recurse(h, Head(vs), visited, stack)
                      IN  Each(Tail(vs), r.visited, r.stack)
         IN  Return(Reverse(Each(IF type = AM THEN vertices ELSE SetOrder(vertices, h), <<>>, <<>>)))

\* ------------------------------------------------------------ get_vertex
\* AdjacencyList.get_vertex / AdjacencyMatrix.get_vertex: the [neighbor, weight]
\* list of a vertex.  The matrix looks the column index up as if it were a key
\* (self.vertices[entry]) and reports the position stored under it.
get_vertex(vertex) ==
    IF vertex \notin VertexKeys THEN Raise("VertexDoesNotExistError")
    ELSE IF type = AL THEN Return(adjacency_list[vertex])
    ELSE LET row == adjacency_matrix[Index(vertex) + 1]
             cols == {i \in 1..Len(row) : row[i] # 0}
         IN  IF \E i \in cols : (i - 1) \notin VertexKeys THEN Raise("KeyError")
             ELSE Return([j \in 1..Cardinality(cols) |->
                      LET i == SortedSet(cols)[j] IN <<Index(i - 1), decode_cell(row[i])>>])

\* ------------------------------------------------------------- dijkstras
\* ShortestPaths._graph_min_distance: one vertex joins spt_set
_graph_min_distance(h, spt_set, distances) ==
    LET RECURSIVE Nbr(_, _, _, _)
        Nbr(nbrs, curr_dist, next_vertex, min_dist) ==
            IF nbrs = <<>> THEN Return(<<next_vertex, min_dist>>)
            ELSE LET neighbor == Head(nbrs)
                 IN  IF type = UG
                     THEN IF neighbor \notin Range(spt_set)
                             /\ (next_vertex = None \/ (next_vertex # 0 /\ next_vertex > neighbor))
                          THEN Nbr(Tail(nbrs), curr_dist, neighbor, curr_dist + 1)
                          ELSE Nbr(Tail(nbrs), curr_dist, next_vertex, min_dist)
                     ELSE IF multiple_edges THEN Raise("TypeError")
                     ELSE IF neighbor.val + curr_dist < min_dist /\ neighbor.nbr \notin Range(spt_set)
                          THEN Nbr(Tail(nbrs), curr_dist, neighbor.nbr, neighbor.val + curr_dist)
                          ELSE Nbr(Tail(nbrs), curr_dist, next_vertex, min_dist)
        RECURSIVE Vertex(_, _, _)
        Vertex(i, next_vertex, min_dist) ==
            IF i > Len(spt_set) THEN Return(<<next_vertex, min_dist>>)
            ELSE LET nbrs == IF type = UG THEN unweighted_get_neighbors(h, spt_set[i])
                             ELSE neighbors[spt_set[i]]
                     r == Nbr(nbrs, distances[IndexOf(spt_set, spt_set[i])], next_vertex, min_dist)
                 IN  IF ~r.ok THEN r ELSE Vertex(i + 1, r.val[1], r.val[2])
        found == Vertex(1, None, maxsize)
    IN  IF ~found.ok THEN found
        ELSE IF found.val[1] # None
        THEN Return(<<Append(spt_set, found.val[1]), Append(distances, found.val[2])>>)
        ELSE Return(<<spt_set, distances>>)

\* ShortestPaths._adjacency_min_distance
_adjacency_min_distance(spt_set, distances) ==
    LET RECURSIVE Nbr(_, _, _, _)
        Nbr(nbrs, curr_dist, next_vertex, min_dist) ==
            IF nbrs = <<>> THEN <<next_vertex, min_dist>>
            ELSE LET neighbor == IF Head(nbrs)[2] # None THEN Head(nbrs) ELSE <<Head(nbrs)[1], 1>>
                 IN  IF neighbor[2] + curr_dist < min_dist /\ neighbor[1] \notin Range(spt_set)
                     THEN Nbr(Tail(nbrs), curr_dist, neighbor[1], neighbor[2] + curr_dist)
                     ELSE Nbr(Tail(nbrs), curr_dist, next_vertex, min_dist)
        RECURSIVE Vertex(_, _, _)
        Vertex(i, next_vertex, min_dist) ==
            IF i > Len(spt_set) THEN Return(<<next_vertex, min_dist>>)
            ELSE LET vertex_node == get_vertex(spt_set[i])
                 IN  IF ~vertex_node.ok THEN vertex_node
                     ELSE LET r == Nbr(vertex_node.val, distances[IndexOf(spt_set, spt_set[i])],
                                       next_vertex, min_dist)
                          IN  Vertex(i + 1, r[1], r[2])
        found == Vertex(1, None, maxsize)
    IN  IF ~found.ok THEN found
        ELSE IF found.val[1] # None
        THEN Return(<<Append(spt_set, found.val[1]), Append(distances, found.val[2])>>)
        ELSE Return(<<spt_set, distances>>)

\* dict(zip(keys, values)): a later pair with the same key replaces the value
RECURSIVE MakeDict(_, _)
MakeDict(ks, xs) ==
    IF ks = <<>> THEN <<>>
    ELSE LET d == MakeDict(SubSeq(ks, 1, Len(ks) - 1), SubSeq(xs, 1, Len(xs) - 1))
             k == ks[Len(ks)]
             x == xs[Len(xs)]
         IN  IF \E i \in 1..Len(d) : d[i][1] = k
             THEN [i \in 1..Len(d) |-> IF d[i][1] = k THEN <<k, x>> ELSE d[i]]
             ELSE Append(d, <<k, x>>)

dijkstras(h, start_node) ==
    LET start == IF type \in {UG, WG}
                 THEN IF Truthy(start_node)
                      THEN IF start_node \in VertexKeys THEN Return(start_node)
                           ELSE Raise("VertexDoesNotExistError")
                      ELSE get_start_vertex
                 ELSE IF start_node = None THEN get_start_vertex ELSE Return(start_node)
        RECURSIVE Rounds(_, _, _)
        Rounds(i, spt_set, distances) ==
            IF i = 0 THEN Return(<<start.val, MakeDict(spt_set, distances)>>)
            ELSE LET r == IF type \in {UG, WG} THEN _graph_min_distance(h, spt_set, distances)
                          ELSE _adjacency_min_distance(spt_set, distances)
                 IN  IF ~r.ok THEN r ELSE Rounds(i - 1, r.val[1], r.val[2])
    IN  IF ~start.ok THEN start ELSE Rounds(NumVertices, <<start.val>>, <<0>>)

\* ------------------------------------------------------------------ MSTs
\* MSTs.verify_root_node
verify_root_node(start_node) ==
    IF Truthy(start_node)
    THEN IF start_node \in VertexKeys THEN Return(start_node)
         ELSE Raise("InvalidMSTNodeError")
    ELSE get_start_vertex

\* "for vertex in self._graph.vertices": a set, or the keys of the matrix dict
VertexOrder(h) == IF type = AM THEN vertices ELSE SetOrder(vertices, h)

\* MSTs._min_weight_not_in_mst; weights is a dict whose keys were inserted in order
_min_weight_not_in_mst(order, weights, vertex_set) ==
    LET RECURSIVE Scan(_, _, _)
        Scan(i, min_vertex, min_weight) ==
            IF i > Len(order) THEN <<min_vertex, min_weight>>
            ELSE IF weights[order[i]] < min_weight /\ order[i] \in vertex_set
                 THEN Scan(i + 1, order[i], weights[order[i]])
                 ELSE Scan(i + 1, min_vertex, min_weight)
    IN  Scan(1, None, maxsize)

\* MSTs.prims_mst.  parent[v] is <<>> (None), <<vertex, weight>>, or <<vertex>>
\* where the code stores the bare key (simple UnweightedGraph).
prims_mst(h, start_node) ==
    LET order == VertexOrder(h)
        \* lines 63-78: the weights and parents after min_vertex joined the tree
        RECURSIVE Update(_, _, _, _, _)
        Update(i, min_vertex, vertex_set, weights, parent) ==
            IF i > Len(order) THEN Return(<<weights, parent>>)
            ELSE LET vertex == order[i]
                 IN  IF type \in {AL, AM}
                     THEN LET node == get_vertex(vertex)
                          IN  IF ~node.ok THEN node
                              ELSE LET temp_weight == SelectSeq(node.val, LAMBDA nb : nb[1] = min_vertex)
                                   IN  IF Len(temp_weight) > 0 /\ vertex \in vertex_set
                                       THEN IF temp_weight[1][2] = None THEN Raise("TypeError")
                                            ELSE IF weights[vertex] > temp_weight[1][2]
                                            THEN Update(i + 1, min_vertex, vertex_set,
                                                        [weights EXCEPT ![vertex] = temp_weight[1][2]],
                                                        [parent EXCEPT ![vertex] = <<min_vertex, temp_weight[1][2]>>])
                                            ELSE Update(i + 1, min_vertex, vertex_set, weights, parent)
                                       ELSE Update(i + 1, min_vertex, vertex_set, weights, parent)
                     ELSE IF is_neighbor(type, multiple_edges, neighbors[vertex], min_vertex)
                             /\ vertex \in vertex_set
                     THEN IF type = UG /\ ~multiple_edges
                          THEN IF weights[vertex] > 1
                               THEN Update(i + 1, min_vertex, vertex_set,
                                           [weights EXCEPT ![vertex] = 1],
                                           [parent EXCEPT ![vertex] = <<min_vertex>>])
                               ELSE Update(i + 1, min_vertex, vertex_set, weights, parent)
                          ELSE IF type = WG /\ multiple_edges THEN Raise("TypeError")
                          ELSE LET w == DictGet(neighbors[vertex], min_vertex)
                               IN  IF weights[vertex] > w
                                   THEN Update(i + 1, min_vertex, vertex_set,
                                               [weights EXCEPT ![vertex] = w],
                                               [parent EXCEPT ![vertex] = <<min_vertex, w>>])
                                   ELSE Update(i + 1, min_vertex, vertex_set, weights, parent)
                     ELSE Update(i + 1, min_vertex, vertex_set, weights, parent)
        RECURSIVE Rounds(_, _, _, _, _)
        Rounds(i, weights, parent, vertex_set, mst) ==
            IF i = 0 THEN Return(<<SeqSum([j \in 1..Len(mst) |-> mst[j][3]]), mst>>)
            ELSE LET min_vertex == _min_weight_not_in_mst(order, weights, vertex_set)[1]
                 IN  IF min_vertex = None THEN Raise("KeyError")
                     ELSE IF Len(parent[min_vertex]) = 1 THEN Raise("TypeError")
                     ELSE LET mst1 == IF parent[min_vertex] # <<>>
                                      THEN Append(mst, <<parent[min_vertex][1], min_vertex,
                                                         parent[min_vertex][2]>>)
                                      ELSE mst
                              r == Update(1, min_vertex, vertex_set \ {min_vertex}, weights, parent)
                          IN  IF ~r.ok THEN r
                              ELSE Rounds(i - 1, r.val[1], r.val[2], vertex_set \ {min_vertex}, mst1)
        root == verify_root_node(start_node)
    IN  IF directed THEN Raise("UnsupportedGraphTypeError")
        ELSE IF ~root.ok THEN root
        ELSE Rounds(NumVertices,
                    [v \in VertexKeys |-> IF v = root.val THEN 0 ELSE maxsize],
                    [v \in VertexKeys |-> <<>>], VertexKeys, <<>>)

\* list[i] and list[i] = x with Python's indices: 0-based, negative from the end
PyIndexOk(list, i) == -Len(list) <= i /\ i < Len(list)
PyPos(list, i) == IF i >= 0 THEN i + 1 ELSE Len(list) + i + 1

\* MSTs._get_edges: one entry per unordered pair, in order of discovery, then
\* sorted by weight; sorted() raises when a None takes part in a comparison
MSTs_get_edges(h) ==
    LET order == VertexOrder(h)
        Seen(edges, u, v) == \E i \in 1..Len(edges) : <<edges[i][1], edges[i][2]>> \in {<<u, v>>, <<v, u>>}
        RECURSIVE Add(_, _, _)
        Add(edges, u, nbrs) ==
            IF nbrs = <<>> THEN edges
            ELSE LET e == Head(nbrs)
                 IN  Add(IF Seen(edges, u, e[1]) THEN edges ELSE Append(edges, <<u, e[1], e[2]>>),
                         u, Tail(nbrs))
        RECURSIVE Each(_, _)
        Each(i, edges) ==
            IF i > Len(order) THEN Return(edges)
            ELSE LET u == order[i]
                 IN  IF type = UG
                     THEN LET ks == unweighted_get_neighbors(h, u)
                          IN  Each(i + 1, Add(edges, u, [j \in 1..Len(ks) |-> <<ks[j], 1>>]))
                     ELSE IF type = WG
                     THEN Each(i + 1, Add(edges, u, [j \in 1..Len(neighbors[u]) |->
                                                     <<neighbors[u][j].nbr, neighbors[u][j].val>>]))
                     ELSE LET node == get_vertex(u)
                          IN  IF ~node.ok THEN node ELSE Each(i + 1, Add(edges, u, node.val))
        found == Each(1, <<>>)
    IN  IF ~found.ok THEN found
        ELSE LET edges == found.val
             IN  IF type \in {AL, AM} /\ Len(edges) >= 2 /\ \E i \in 1..Len(edges) : edges[i][3] = None
                 THEN Raise("TypeError")
                 ELSE Return(Items(SortPairs([i \in 1..Len(edges) |->
                          <<IF type = WG /\ multiple_edges THEN edges[i][3] ELSE <<edges[i][3]>>,
                            edges[i]>>])))

\* MSTs._find_set: nodes is indexed by the vertex key itself
RECURSIVE _find_set(_, _, _)
_find_set(nodes, target, depth) ==
    IF ~PyIndexOk(nodes, target) THEN Raise("IndexError")
    ELSE IF nodes[PyPos(nodes, target)] = target THEN Return(target)
    ELSE IF depth = 0 THEN Raise("RecursionError")
    ELSE _find_set(nodes, nodes[PyPos(nodes, target)], depth - 1)

\* MSTs._union: <<nodes, rank>> afterwards
_union(nodes, rank, first, second) ==
    LET root1 == _find_set(nodes, first, 2 * Len(nodes))
        root2 == _find_set(nodes, second, 2 * Len(nodes))
    IN  IF ~root1.ok THEN root1
        ELSE IF ~root2.ok THEN root2
        ELSE IF ~PyIndexOk(rank, root1.val) \/ ~PyIndexOk(rank, root2.val) THEN Raise("IndexError")
        ELSE LET r1 == rank[PyPos(rank, root1.val)]
                 r2 == rank[PyPos(rank, root2.val)]
             IN  IF r1 > r2 THEN Return(<<[nodes EXCEPT ![PyPos(nodes, root2.val)] = root1.val], rank>>)
                 ELSE IF r1 < r2 THEN Return(<<[nodes EXCEPT ![PyPos(nodes, root1.val)] = root2.val], rank>>)
                 ELSE Return(<<[nodes EXCEPT ![PyPos(nodes, root2.val)] = root1.val],
                               [rank EXCEPT ![PyPos(rank, root1.val)] = @ + 1]>>)

\* MSTs.kruskals_mst
kruskals_mst(h) ==
    LET RECURSIVE Loop(_, _, _, _, _)
        Loop(edges, nodes, rank, mst, min_cost) ==
            IF ~(Len(mst) < NumVertices - 1) \/ edges = <<>> THEN Return(<<min_cost, mst>>)
            ELSE LET edge == Head(edges)
                     first == _find_set(nodes, edge[1], 2 * Len(nodes))
                     second == _find_set(nodes, edge[2], 2 * Len(nodes))
                 IN  IF ~first.ok THEN first
                     ELSE IF ~second.ok THEN second
                     ELSE IF first.val # second.val
                     THEN IF (type = WG /\ multiple_edges) \/ edge[3] = None THEN Raise("TypeError")
                          ELSE LET u == _union(nodes, rank, first.val, second.val)
                               IN  IF ~u.ok THEN u
                                   ELSE Loop(Tail(edges), u.val[1], u.val[2],
                                             Append(mst, edge), min_cost + edge[3])
                     ELSE Loop(Tail(edges), nodes, rank, mst, min_cost)
        edges0 == MSTs_get_edges(h)
    IN  IF directed THEN Raise("UnsupportedGraphTypeError")
        ELSE IF ~edges0.ok THEN edges0
        ELSE Loop(edges0.val, SortedSet(VertexKeys), [i \in 1..NumVertices |-> 0], <<>>, 0)

\* ------------------------------------------------ directed_to_undirected
\* the fields of a graph object the conversions build; the graph of this
\* state, as such an object
ThisGraph ==
    [vertices |-> vertices, neighbors |-> neighbors,
     adjacency_list |-> adjacency_list, adjacency_matrix |-> adjacency_matrix]

\* one <<neighbor, weight>> per stored edge of a node, in get_neighbors() order
NodeEdges(h, node) ==
    LET nb == neighbors[node]
        RECURSIVE Flat(_)
        Flat(i) ==
            IF i > Len(nb) THEN <<>>
            ELSE (IF type = UG THEN [j \in 1..nb[i].val |-> <<nb[i].nbr, None>>]
                  ELSE [j \in 1..Len(nb[i].val) |-> <<nb[i].nbr, nb[i].val[j]>>]) \o Flat(i + 1)
    IN  IF type = UG /\ ~multiple_edges
        THEN LET ns == unweighted_get_neighbors(h, node)
             IN  [i \in 1..Len(ns) |-> <<ns[i], None>>]
        ELSE IF ~multiple_edges THEN [i \in 1..Len(nb) |-> <<nb[i].nbr, nb[i].val>>]
        ELSE Flat(1)

\* new_graph.add_edge(v1, v2, weight) on the directed graph being built; r is
\* the outcome so far
new_graph_add_edge(r, v1, v2, weight) ==
    IF ~r.ok THEN r
    ELSE IF ~insert_neighbor_ok(type, multiple_edges, r.val.neighbors[v1], v2)
    THEN Raise("NeighborAlreadyExistsError")
    ELSE Return([r.val EXCEPT !.neighbors[v1] =
                    insert_neighbor(type, multiple_edges, @, v2, weight)])

new_list_add_edge(r, v1, v2, weight) ==
    IF ~r.ok THEN r
    ELSE IF ~multiple_edges /\ \E i \in 1..Len(r.val.adjacency_list[v1]) :
                                   r.val.adjacency_list[v1][i][1] = v2
    THEN Raise("NeighborAlreadyExistsError")
    ELSE Return([r.val EXCEPT !.adjacency_list[v1] = Append(@, <<v2, weight>>)])

new_matrix_add_edge(r, v1, v2, weight) ==
    IF ~r.ok THEN r
    ELSE IF v1 \notin VertexKeys \/ v2 \notin VertexKeys THEN Raise("VertexDoesNotExistError")
    ELSE IF r.val.adjacency_matrix[Index(v1) + 1][Index(v2) + 1] # 0
    THEN Raise("NeighborAlreadyExistsError")
    ELSE Return([r.val EXCEPT !.adjacency_matrix =
                    SetCell(@, Index(v1), Index(v2), update_weight(weight))])

\* Conversions.directed_to_undirected of a directed graph: the new graph, of
\* the same class and multiple_edges flag, or the exception raised
directed_to_undirected(h) ==
    LET order == VertexOrder(h)
        n == Len(order)
        empty == [vertices |-> vertices,
                  neighbors |-> IF type \in {UG, WG}
                                THEN [v \in vertices |-> EmptyNeighbors(type, multiple_edges)]
                                ELSE <<>>,
                  adjacency_list |-> IF type = AL THEN [v \in vertices |-> <<>>] ELSE <<>>,
                  adjacency_matrix |-> IF type = AM THEN [i \in 1..n |-> [j \in 1..n |-> 0]]
                                       ELSE <<>>]
        GraphEdge(r, vertex, e) ==
            IF ~r.ok THEN r
            ELSE IF multiple_edges
            THEN new_graph_add_edge(new_graph_add_edge(r, vertex, e[1], e[2]), e[1], vertex, e[2])
            ELSE LET r1 == new_graph_add_edge(r, vertex, e[1], e[2])
                 IN  IF r1.ok /\ ~is_neighbor(type, multiple_edges, r1.val.neighbors[e[1]], vertex)
                     THEN new_graph_add_edge(r1, e[1], vertex, e[2])
                     ELSE r1
        ListEdge(r, vertex, e) ==
            LET r1 == new_list_add_edge(r, vertex, e[1], e[2])
            IN  IF ~r1.ok THEN r1
                ELSE IF multiple_edges
                        \/ \A i \in 1..Len(adjacency_list[e[1]]) : adjacency_list[e[1]][i][1] # vertex
                THEN new_list_add_edge(r1, e[1], vertex, e[2])
                ELSE r1
        MatrixEdge(r, vertex, e) ==
            LET r1 == new_matrix_add_edge(r, vertex, e[1], e[2])
                back == get_vertex(e[1])
            IN  IF ~r1.ok THEN r1
                ELSE IF ~back.ok THEN back
                ELSE IF \A i \in 1..Len(back.val) : back.val[i][1] # vertex
                THEN new_matrix_add_edge(r1, e[1], vertex, e[2])
                ELSE r1
        RECURSIVE Edges(_, _, _)
        Edges(r, vertex, es) ==
            IF es = <<>> \/ ~r.ok THEN r
            ELSE Edges(CASE type \in {UG, WG} -> GraphEdge(r, vertex, Head(es))
                         [] type = AL -> ListEdge(r, vertex, Head(es))
                         [] type = AM -> MatrixEdge(r, vertex, Head(es)),
                       vertex, Tail(es))
        RECURSIVE Vertices(_, _)
        Vertices(r, i) ==
            IF i > n \/ ~r.ok THEN r
            ELSE LET vertex == order[i]
                     es == IF type \in {UG, WG} THEN Return(NodeEdges(h, vertex))
                           ELSE get_vertex(vertex)
                 IN  IF ~es.ok THEN es ELSE Vertices(Edges(r, vertex, es.val), i + 1)
    IN  Vertices(Return(empty), 1)

\* ------------------------------------------------------------------ cuts
\* the graph Cuts works on: self._graph, converted first when it is directed
Cuts_graph(h) == IF directed THEN directed_to_undirected(h) ELSE Return(ThisGraph)

GraphKeys(g) == IF type = AM THEN Range(g.vertices) ELSE g.vertices

\* Cuts._get_neighbors on the graph g
Cuts_get_neighbors(h, g, node) ==
    CASE type = UG -> IF ~multiple_edges THEN SetOrder(g.neighbors[node], h)
                      ELSE DictKeys(g.neighbors[node])
      [] type = WG ->
            LET nb == g.neighbors[node]
            IN  Items(SortPairs([i \in 1..Len(nb) |-> <<WeightKey(nb[i].val), nb[i].nbr>>]))
      [] type = AL -> SortByWeightThenKey(g.adjacency_list[node])
      [] type = AM ->
            LET row == g.adjacency_matrix[IndexOf(g.vertices, node)]
                cols == SortedSet({i \in 1..Len(row) : row[i] # 0})
            IN  SortByWeightThenKey([j \in 1..Len(cols) |->
                    <<g.vertices[cols[j]], decode_cell(row[cols[j]])>>])

Min(a, b) == IF a <= b THEN a ELSE b

\* the lists and dicts of one run of articulation_points() or bridges(), with
\* self._iterations; out is points or bridges
CutsStart(g) ==
    [visited |-> <<>>, out |-> <<>>, iterations |-> 0,
     seen |-> [v \in GraphKeys(g) |-> inf],
     low |-> [v \in GraphKeys(g) |-> inf],
     parent |-> [v \in GraphKeys(g) |-> -1]]

RECURSIVE _articulation_recurse(_, _, _, _)
_articulation_recurse(h, g, vertex, st0) ==
    LET RECURSIVE Loop(_, _, _)
        Loop(nbrs, st, children) ==
            IF nbrs = <<>> THEN st
            ELSE LET neighbor == Head(nbrs)
                 IN  IF neighbor \notin Range(st.visited)
                     THEN LET r == _articulation_recurse(h, g, neighbor,
                                        [st EXCEPT !.parent[neighbor] = vertex])
                              r1 == [r EXCEPT !.low[vertex] = Min(r.low[neighbor], @)]
                              r2 == IF vertex \notin DOMAIN r1.parent /\ children + 1 > 1
                                    THEN [r1 EXCEPT !.out = Append(@, vertex)] ELSE r1
                              r3 == IF vertex \in DOMAIN r2.parent
                                       /\ r2.low[neighbor] >= r2.seen[vertex]
                                    THEN [r2 EXCEPT !.out = Append(@, vertex)] ELSE r2
                          IN  Loop(Tail(nbrs), r3, children + 1)
                     ELSE IF neighbor # st.parent[vertex]
                     THEN Loop(Tail(nbrs),
                               [st EXCEPT !.low[vertex] = Min(@, st.seen[neighbor])], children)
                     ELSE Loop(Tail(nbrs), st, children)
    IN  Loop(Cuts_get_neighbors(h, g, vertex),
             [st0 EXCEPT !.visited = Append(@, vertex), !.seen[vertex] = st0.iterations,
                         !.low[vertex] = st0.iterations, !.iterations = @ + 1],
             0)

RECURSIVE _bridges_recurse(_, _, _, _)
_bridges_recurse(h, g, vertex, st0) ==
    LET RECURSIVE Loop(_, _)
        Loop(nbrs, st) ==
            IF nbrs = <<>> THEN st
            ELSE LET neighbor == Head(nbrs)
                 IN  IF neighbor \notin Range(st.visited)
                     THEN LET r == _bridges_recurse(h, g, neighbor,
                                        [st EXCEPT !.parent[neighbor] = vertex])
                              r1 == [r EXCEPT !.low[vertex] = Min(r.low[neighbor], @)]
                          IN  Loop(Tail(nbrs),
                                   IF r1.low[neighbor] > r1.seen[vertex]
                                   THEN [r1 EXCEPT !.out = Append(@, <<vertex, neighbor>>)]
                                   ELSE r1)
                     ELSE IF neighbor # st.parent[vertex]
                     THEN Loop(Tail(nbrs), [st EXCEPT !.low[vertex] = Min(@, st.seen[neighbor])])
                     ELSE Loop(Tail(nbrs), st)
    IN  Loop(Cuts_get_neighbors(h, g, vertex),
             [st0 EXCEPT !.visited = Append(@, vertex), !.seen[vertex] = st0.iterations,
                         !.low[vertex] = st0.iterations, !.iterations = @ + 1])

\* the loop over self._graph.vertices of both algorithms: a node object is
\* never equal to a key of visited, so the graph classes recurse from every
\* vertex. h2 ranks the sets of a converted graph
CutsRun(h, h2, points) ==
    LET c == Cuts_graph(h)
        hh == IF directed THEN h2 ELSE h
        RECURSIVE Outer(_, _)
        Outer(vs, st) ==
            IF vs = <<>> THEN st
            ELSE Outer(Tail(vs),
                       IF type \in {UG, WG} \/ Head(vs) \notin Range(st.visited)
                       THEN IF points THEN _articulation_recurse(hh, c.val, Head(vs), st)
                            ELSE _bridges_recurse(hh, c.val, Head(vs), st)
                       ELSE st)
    IN  IF ~c.ok THEN c
        ELSE Return(Outer(IF type = AM THEN c.val.vertices ELSE SetOrder(c.val.vertices, hh),
                          CutsStart(c.val)).out)

articulation_points(h, h2) ==
    LET r == CutsRun(h, h2, TRUE)
    IN  IF r.ok THEN Return(SortedSet(Range(r.val))) ELSE r

bridges(h, h2) == CutsRun(h, h2, FALSE)

\* -------------------------------------------------------- floyd_warshall
\* new_matrix after the add_vertex calls of a conversion: a directed matrix
\* whose keys are the vertices in iteration order
NewMatrix(order) ==
    [vertices |-> order, neighbors |-> <<>>, adjacency_list |-> <<>>,
     adjacency_matrix |-> [i \in 1..Len(order) |-> [j \in 1..Len(order) |-> 0]]]

\* the loop over the edges of a conversion to a matrix: es[vertex] lists the
\* <<neighbor, weight>> pairs of a vertex, lower says whether a second edge to
\* the same neighbor may lower the stored weight
MatrixOfEdges(order, es, lower) ==
    LET Put(am, v1, v2, weight) ==
            LET i == IndexOf(order, v1)
                j == IndexOf(order, v2)
            IN  IF am.adjacency_matrix[i][j] = 0
                   \/ (lower /\ am.adjacency_matrix[i][j] > update_weight(weight))
                THEN [am EXCEPT !.adjacency_matrix[i][j] = update_weight(weight)]
                ELSE am
        RECURSIVE Edges(_, _, _)
        Edges(am, vertex, rest) ==
            IF rest = <<>> THEN am
            ELSE Edges(Put(am, vertex, Head(rest)[1], Head(rest)[2]), vertex, Tail(rest))
        RECURSIVE Vertices(_, _)
        Vertices(am, i) ==
            IF i > Len(order) THEN am
            ELSE Vertices(Edges(am, order[i], es[order[i]]), i + 1)
    IN  Vertices(NewMatrix(order), 1)

\* Conversions.graph_to_adjacency_matrix
graph_to_adjacency_matrix(h) ==
    LET es == [vertex \in VertexKeys |->
            IF type = UG
            THEN LET ns == unweighted_get_neighbors(h, vertex)
                 IN  [i \in 1..Len(ns) |-> <<ns[i], None>>]
            ELSE LET nb == weighted_get_neighbors(vertex)
                 IN  [i \in 1..Len(nb) |->
                        <<nb[i].nbr, IF multiple_edges THEN SetMin(Range(nb[i].val)) ELSE nb[i].val>>]]
    IN  MatrixOfEdges(VertexOrder(h), es, FALSE)

\* Conversions.adjacency_list_to_adjacency_matrix
adjacency_list_to_adjacency_matrix(h) ==
    LET es == [vertex \in VertexKeys |-> adjacency_list[vertex]]
    IN  MatrixOfEdges(VertexOrder(h), es, TRUE)

\* the distance floyd_warshall reads from a matrix cell
cell_distance(matrix_dist) ==
    IF matrix_dist = 0 THEN inf
    ELSE IF matrix_dist = 2 THEN matrix_dist - 1
    ELSE IF matrix_dist > 1 THEN matrix_dist - 2
    ELSE matrix_dist

\* ShortestPaths.floyd_warshall, up to the relaxation: the rows and columns of
\* distances follow the sorted keys
floyd_distances(h) ==
    LET am == CASE type \in {UG, WG} -> graph_to_adjacency_matrix(h)
                [] type = AL -> adjacency_list_to_adjacency_matrix(h)
                [] type = AM -> ThisGraph
        ks == SortedSet(Range(am.vertices))
        dist(row, col) ==
            cell_distance(am.adjacency_matrix[IndexOf(am.vertices, row)][IndexOf(am.vertices, col)])
    IN  [i \in 1..Len(ks) |-> [j \in 1..Len(ks) |->
            IF i = j /\ dist(ks[i], ks[j]) = inf THEN 0 ELSE dist(ks[i], ks[j])]]

\* the triple loop left out
no_relax(distances, t) == distances

\* the triple loop, in place: step t is k, i, j = t in base n
RECURSIVE floyd_relax(_, _)
floyd_relax(distances, t) ==
    LET n == Len(distances)
        k == (t \div (n * n)) + 1
        i == ((t \div n) % n) + 1
        j == (t % n) + 1
    IN  IF t >= n * n * n THEN distances
        ELSE IF distances[i][k] = inf \/ distances[k][j] = inf THEN floyd_relax(distances, t + 1)
        ELSE floyd_relax([distances EXCEPT ![i][j] = Min(@, distances[i][k] + distances[k][j])],
                         t + 1)

\* the output indexes distances with the vertex keys themselves
floyd_warshall(h) ==
    LET ks == SortedSet(VertexKeys)
        distances == floyd_relax(floyd_distances(h), 0)
    IN  IF \E row \in VertexKeys : ~PyIndexOk(distances, row) THEN Raise("IndexError")
        ELSE Return([r \in 1..Len(ks) |->
                        <<ks[r], [c \in 1..Len(ks) |->
                            <<ks[c], distances[PyPos(distances, ks[r])][PyPos(distances, ks[c])]>>]>>])

\* ---------------------------------------------------------- bellman_ford
\* ShortestPaths._get_edges: a dict (v1, v2) -> weight that takes a pair only
\* when neither it nor its reverse is a key yet, then sorted by key
ShortestPaths_get_edges(h) ==
    LET order == VertexOrder(h)
        nbrs(vertex) ==
            CASE type = UG ->
                    LET ns == unweighted_get_neighbors(h, vertex)
                    IN  Return([i \in 1..Len(ns) |-> <<ns[i], 1>>])
              [] type = WG ->
                    LET nb == weighted_get_neighbors(vertex)
                    IN  Return([i \in 1..Len(nb) |-> <<nb[i].nbr, nb[i].val>>])
              [] OTHER -> get_vertex(vertex)
        RECURSIVE Edges(_, _, _)
        Edges(edges, vertex, es) ==
            IF es = <<>> THEN edges
            ELSE LET e == Head(es)
                 IN  Edges(IF \E i \in 1..Len(edges) :
                                  \/ edges[i][1] = <<vertex, e[1]>>
                                  \/ edges[i][1] = <<e[1], vertex>>
                           THEN edges
                           ELSE Append(edges, << <<vertex, e[1]>>, <<vertex, e[1], e[2]>> >>),
                           vertex, Tail(es))
        RECURSIVE Vertices(_, _)
        Vertices(edges, i) ==
            IF i > Len(order) THEN Return(Items(SortPairs(edges)))
            ELSE LET es == nbrs(order[i])
                 IN  IF ~es.ok THEN es ELSE Vertices(Edges(edges, order[i], es.val), i + 1)
    IN  Vertices(<<>>, 1)

\* ShortestPaths.bellman_ford: a default start of a node graph is the node
\* object, which equals no key
bellman_ford(h, start_node) ==
    LET start == IF start_node = None THEN get_start_vertex ELSE Return(start_node)
        edges == ShortestPaths_get_edges(h)
        isStart(v) == IF start_node = None /\ type \in {UG, WG} THEN FALSE ELSE v = start.val
        n == Len(edges.val)
        RECURSIVE Pass(_, _)
        Pass(distances, t) ==
            IF ~distances.ok \/ t >= n * (NumVertices - 1) THEN distances
            ELSE LET e == edges.val[(t % n) + 1]
                     d == distances.val
                     weight == IF e[3] = None THEN 0 ELSE e[3]
                 IN  IF d[e[1]] = inf THEN Pass(distances, t + 1)
                     ELSE IF type = WG /\ multiple_edges THEN Raise("TypeError")
                     ELSE IF e[2] \notin VertexKeys THEN Raise("KeyError")
                     ELSE IF d[e[1]] + weight < d[e[2]]
                     THEN Pass(Return([d EXCEPT ![e[2]] = d[e[1]] + weight]), t + 1)
                     ELSE Pass(distances, t + 1)
        final == Pass(Return([v \in VertexKeys |-> IF isStart(v) THEN 0 ELSE inf]), 0)
        ks == SortedSet(VertexKeys)
    IN  IF ~start.ok THEN start
        ELSE IF ~edges.ok THEN edges
        ELSE IF ~final.ok THEN final
        ELSE Return([i \in 1..Len(ks) |-> <<ks[i], final.val[ks[i]]>>])

\* -------------------------------------------------- detect_negative_cycle
\* Cycles.detect_negative_cycle: a negative self-distance in floyd_warshall()
detect_negative_cycle(h) ==
    LET distances == floyd_warshall(h)
    IN  IF ~distances.ok THEN distances
        ELSE Return(\E v \in 1..Len(distances.val) : \E p \in 1..Len(distances.val[v][2]) :
                        /\ distances.val[v][1] = distances.val[v][2][p][1]
                        /\ distances.val[v][2][p][2] < 0)

\* ------------------------------------------------------ hamiltonian_cycle
\* Cycles._graph_hamiltonian_cycle_recurse: <<found, path>>
RECURSIVE _graph_hamiltonian_cycle_recurse(_, _, _)
_graph_hamiltonian_cycle_recurse(h, path, curr_index) ==
    LET last == neighbors[path[curr_index]]
        RECURSIVE Loop(_)
        Loop(vs) ==
            IF vs = <<>> THEN <<FALSE, path>>
            ELSE IF is_neighbor(type, multiple_edges, last, Head(vs)) /\ Head(vs) \notin Range(path)
            THEN LET r == _graph_hamiltonian_cycle_recurse(h, Append(path, Head(vs)), curr_index + 1)
                 IN  IF r[1] THEN r ELSE Loop(Tail(vs))
            ELSE Loop(Tail(vs))
    IN  IF curr_index = NumVertices
        THEN <<is_neighbor(type, multiple_edges, last, path[1]), path>>
        ELSE Loop(VertexOrder(h))

\* Cycles._adjacency_hamiltonian_cycle_recurse: the outcome of <<found, path>>;
\* a vertex is taken when it is NOT among the neighbors of the last one
RECURSIVE _adjacency_hamiltonian_cycle_recurse(_, _, _)
_adjacency_hamiltonian_cycle_recurse(h, path, curr_index) ==
    LET last == get_vertex(path[curr_index])
        keys == {last.val[i][1] : i \in 1..Len(last.val)}
        RECURSIVE Loop(_)
        Loop(vs) ==
            IF vs = <<>> THEN Return(<<FALSE, path>>)
            ELSE IF ~last.ok THEN last
            ELSE IF Head(vs) \notin keys /\ Head(vs) \notin Range(path)
            THEN LET r == _adjacency_hamiltonian_cycle_recurse(h, Append(path, Head(vs)),
                                                               curr_index + 1)
                 IN  IF ~r.ok \/ r.val[1] THEN r ELSE Loop(Tail(vs))
            ELSE Loop(Tail(vs))
    IN  IF curr_index = NumVertices
        THEN IF ~last.ok THEN last ELSE Return(<<path[1] \in keys, path>>)
        ELSE Loop(VertexOrder(h))

\* Cycles.hamiltonian_cycle: get_vertex gives a node or [key, neighbors], and
\* get_start_vertex of a list or matrix a key, which start_node[0] cannot index
hamiltonian_cycle(h, start_node) ==
    LET start == IF start_node = None THEN get_start_vertex
                 ELSE IF start_node \notin VertexKeys THEN Raise("VertexDoesNotExistError")
                 ELSE IF type \in {UG, WG} THEN Return(start_node)
                 ELSE IF get_vertex(start_node).ok THEN Return(start_node)
                 ELSE get_vertex(start_node)
        r == IF type \in {UG, WG}
             THEN Return(_graph_hamiltonian_cycle_recurse(h, <<start.val>>, 1))
             ELSE _adjacency_hamiltonian_cycle_recurse(h, <<start.val>>, 1)
    IN  IF ~start.ok THEN start
        ELSE IF type \in {AL, AM} /\ start_node = None THEN Raise("TypeError")
        ELSE IF ~r.ok THEN r
        ELSE IF ~r.val[1] THEN Return(<<FALSE, None>>)
        ELSE Return(<<TRUE, Append(r.val[2], r.val[2][1])>>)

\* --------------------------------------------------------------- bfs, dfs
\* Traversals._verify_target_node
_verify_target_node(target_node) ==
    IF target_node \in VertexKeys THEN Return(target_node)
    ELSE Raise("InvalidTraversalNodeError")

\* the while loop of bfs: it returns as soon as the target is appended
RECURSIVE BfsLoop(_, _, _, _)
BfsLoop(h, target_node, visited, nbrs) ==
    IF nbrs = <<>> THEN visited
    ELSE LET temp_node == Head(nbrs)
         IN  IF temp_node \notin Range(visited)
             THEN IF temp_node = target_node THEN Append(visited, temp_node)
                  ELSE BfsLoop(h, target_node, Append(visited, temp_node),
                               Tail(nbrs) \o _get_neighbors(h, temp_node))
             ELSE BfsLoop(h, target_node, visited, Tail(nbrs))

bfs(h, target_node, start_node) ==
    LET root == _verify_root_node(start_node)
        target == _verify_target_node(target_node)
    IN  IF ~root.ok THEN root
        ELSE IF ~target.ok THEN target
        ELSE IF root.val = target_node THEN Return(<<root.val>>)
        ELSE Return(BfsLoop(h, target_node, <<root.val>>, _get_neighbors(h, root.val)))

\* Traversals._dfs_recurse on a list or matrix: <<stop, visited>>
RECURSIVE _dfs_recurse(_, _, _, _)
_dfs_recurse(h, node, target, visited) ==
    LET RECURSIVE Loop(_, _)
        Loop(nbrs, vis) ==
            IF nbrs = <<>> THEN <<FALSE, vis>>
            ELSE IF Head(nbrs) \notin Range(vis)
                 THEN LET r == _dfs_recurse(h, Head(nbrs), target, vis)
                      IN  IF r[1] THEN r ELSE Loop(Tail(nbrs), r[2])
                 ELSE Loop(Tail(nbrs), vis)
    IN  IF node = target THEN <<TRUE, Append(visited, node)>>
        ELSE Loop(_get_neighbors(h, node), Append(visited, node))

\* Traversals.dfs: on a node graph _dfs_recurse reads target.value of the
\* target key, an int
dfs(h, target_node, start_node) ==
    LET root == _verify_root_node(start_node)
        target == _verify_target_node(target_node)
    IN  IF ~root.ok THEN root
        ELSE IF ~target.ok THEN target
        ELSE IF type \in {UG, WG} THEN Raise("AttributeError")
        ELSE Return(_dfs_recurse(h, root.val, target_node, <<>>)[2])

\* ---------------------------------------------------------------- mutators
\* A mutator call as a whole: how it ended and the graph object it leaves,
\* also when it raises part of the way.
Done(g) == [ok |-> TRUE, err |-> "", g |-> g]
Failed(e, g) == [ok |-> FALSE, err |-> e, g |-> g]

\* del d[k]
DictDel(d, k) == SelectSeq(d, LAMBDA item : item.nbr # k)

SeqMax(s) == CHOOSE x \in Range(s) : \A y \in Range(s) : y <= x

\* UnweightedGraphNode.remove_neighbor / WeightedGraphNode.remove_neighbor of a
\* neighbor that is present (otherwise it raises NeighborDoesNotExistError)
remove_neighbor(t, multi, nbs, nbr, weight) ==
    IF t = UG
    THEN IF ~multi THEN nbs \ {nbr}
         ELSE IF DictGet(nbs, nbr) - 1 = 0 THEN DictDel(nbs, nbr)
         ELSE DictSet(nbs, nbr, DictGet(nbs, nbr) - 1)
    ELSE IF ~multi THEN DictDel(nbs, nbr)
         ELSE LET temp_list == DictGet(nbs, nbr)
                  w == IF weight = None \/ weight = 0 \/ weight \notin Range(temp_list)
                       THEN SeqMax(temp_list) ELSE weight
                  rest == RemoveFirst(temp_list, w)
              IN  IF Len(rest) > 0 THEN DictSet(nbs, nbr, rest) ELSE DictDel(nbs, nbr)

\* self.vertices.discard(node) for the nodes of S: the node objects leave the set
Discard(g, S) ==
    [g EXCEPT !.vertices = @ \ S,
              !.neighbors = [v \in (DOMAIN @) \ S |-> @[v]]]

\* add_vertex of every representation
Graph_add_vertex(vertex) ==
    LET g == ThisGraph
    IN  IF vertex \in VertexKeys THEN Failed("VertexAlreadyExistsError", g)
        ELSE CASE type \in {UG, WG} ->
                    Done([g EXCEPT !.vertices = @ \cup {vertex},
                                   !.neighbors = @ @@ (vertex :> EmptyNeighbors(type, multiple_edges))])
               [] type = AL ->
                    Done([g EXCEPT !.vertices = @ \cup {vertex},
                                   !.adjacency_list = @ @@ (vertex :> <<>>)])
               [] type = AM ->
                    LET n == Len(vertices)
                    IN  Done([g EXCEPT !.vertices = Append(@, vertex),
                                       !.adjacency_matrix =
                                           [i \in 1..(n + 1) |-> [j \in 1..(n + 1) |->
                                               IF i <= n /\ j <= n THEN adjacency_matrix[i][j] ELSE 0]]])

\* BaseGraph.add_edge through UnweightedGraph.add_edge / WeightedGraph.add_edge:
\* both nodes are taken out of the vertex set before their neighbors are
\* changed and put back afterwards
BaseGraph_add_edge(vertex1, vertex2, weight) ==
    LET g == ThisGraph
        w == IF type = UG THEN None ELSE IF weight = None THEN default_weight ELSE weight
        mirror == ~directed /\ vertex1 # vertex2
    IN  IF vertex1 \notin vertices \/ vertex2 \notin vertices
        THEN Failed("VertexDoesNotExistError", g)
        ELSE IF mirror /\ ~insert_neighbor_ok(type, multiple_edges, neighbors[vertex2], vertex1)
        THEN Failed("NeighborAlreadyExistsError", Discard(g, {vertex1, vertex2}))
        ELSE LET n2 == IF mirror
                       THEN [neighbors EXCEPT ![vertex2] =
                                insert_neighbor(type, multiple_edges, @, vertex1, w)]
                       ELSE neighbors
             IN  IF ~insert_neighbor_ok(type, multiple_edges, n2[vertex1], vertex2)
                 THEN Failed("NeighborAlreadyExistsError",
                             Discard([g EXCEPT !.neighbors = n2], {vertex1}))
                 ELSE Done([g EXCEPT !.neighbors = [n2 EXCEPT ![vertex1] =
                                insert_neighbor(type, multiple_edges, @, vertex2, w)]])

\* BaseGraph.remove_edge through UnweightedGraph.remove_edge (which drops the
\* weight) and WeightedGraph.remove_edge
BaseGraph_remove_edge(vertex1, vertex2, weight) ==
    LET g == ThisGraph
        w == IF type = UG THEN None ELSE weight
        mirror == ~directed /\ vertex1 # vertex2
    IN  IF vertex1 \notin vertices \/ vertex2 \notin vertices
        THEN Failed("VertexDoesNotExistError", g)
        ELSE IF mirror /\ ~is_neighbor(type, multiple_edges, neighbors[vertex2], vertex1)
        THEN Failed("NeighborDoesNotExistError", Discard(g, {vertex1, vertex2}))
        ELSE LET n2 == IF mirror
                       THEN [neighbors EXCEPT ![vertex2] =
                                remove_neighbor(type, multiple_edges, @, vertex1, w)]
                       ELSE neighbors
             IN  IF ~is_neighbor(type, multiple_edges, n2[vertex1], vertex2)
                 THEN Failed("NeighborDoesNotExistError",
                             Discard([g EXCEPT !.neighbors = n2], {vertex1}))
                 ELSE Done([g EXCEPT !.neighbors = [n2 EXCEPT ![vertex1] =
                                remove_neighbor(type, multiple_edges, @, vertex2, w)]])

\* UnweightedGraph.remove_vertex / WeightedGraph.remove_vertex
Graph_remove_vertex(vertex) ==
    LET g == ThisGraph
        RECURSIVE While(_)
        While(nbs) ==
            IF is_neighbor(type, multiple_edges, nbs, vertex)
            THEN While(remove_neighbor(type, multiple_edges, nbs, vertex, None))
            ELSE nbs
        rest == Discard(g, {vertex})
    IN  IF vertex \notin vertices THEN Failed("VertexDoesNotExistError", g)
        ELSE Done([rest EXCEPT !.neighbors = [key \in DOMAIN @ |-> While(@[key])]])

\* AdjacencyList.add_edge
AdjacencyList_add_edge(vertex1, vertex2, weight) ==
    LET g == ThisGraph
        temp_list == adjacency_list[vertex1]
        l1 == IF ~directed /\ vertex1 # vertex2
              THEN [adjacency_list EXCEPT ![vertex2] = Append(@, <<vertex1, weight>>)]
              ELSE adjacency_list
    IN  IF vertex1 \notin vertices \/ vertex2 \notin vertices
        THEN Failed("VertexDoesNotExistError", g)
        ELSE IF ~multiple_edges /\ \E i \in 1..Len(temp_list) : temp_list[i][1] = vertex2
        THEN Failed("NeighborAlreadyExistsError", g)
        ELSE Done([g EXCEPT !.adjacency_list = [l1 EXCEPT ![vertex1] = Append(@, <<vertex2, weight>>)]])

\* AdjacencyList.remove_edge.  temp_list is the list of vertex1 with a missing
\* weight read as 0, sorted by falling weight; the target is its first entry
\* for vertex2 (with the given weight, when one is given)
AdjacencyList_remove_edge(vertex1, vertex2, weight) ==
    LET g == ThisGraph
        original_list == adjacency_list[vertex1]
        zeroed == [i \in 1..Len(original_list) |->
                      IF original_list[i][2] = None THEN <<original_list[i][1], 0>>
                      ELSE original_list[i]]
        temp_list == Items(SortPairs([i \in 1..Len(zeroed) |-> <<<<-zeroed[i][2]>>, zeroed[i]>>]))
        hits == {i \in 1..Len(temp_list) :
                    /\ temp_list[i][1] = vertex2
                    /\ weight # None => temp_list[i][2] = weight}
        target == temp_list[SetMin(hits)]
        stored == <<target[1], IF target[2] = 0 THEN None ELSE target[2]>>
    IN  IF vertex1 \notin vertices \/ vertex2 \notin vertices
        THEN Failed("VertexDoesNotExistError", g)
        ELSE IF hits = {} THEN Failed("NeighborDoesNotExistError", g)
        ELSE IF ~directed /\ IndexOf(adjacency_list[vertex2], <<vertex1, stored[2]>>) = 0
        THEN Failed("ValueError", g)
        ELSE LET l2 == IF ~directed
                       THEN [adjacency_list EXCEPT ![vertex2] = RemoveFirst(@, <<vertex1, stored[2]>>)]
                       ELSE adjacency_list
             IN  Done([g EXCEPT !.adjacency_list = [l2 EXCEPT ![vertex1] =
                          IF IndexOf(original_list, target) # 0
                          THEN RemoveFirst(original_list, target)
                          ELSE RemoveFirst(original_list, stored)]])

\* AdjacencyList._update_edges on one neighbor list: the index runs over the
\* length the list had at the start while entries are deleted under it
_update_edges(list, keys) ==
    LET RECURSIVE For(_, _)
        For(l, i) ==
            IF i > Len(list) THEN Return(l)
            ELSE IF i > Len(l) THEN [ok |-> FALSE, err |-> "IndexError", val |-> l]
            ELSE IF l[i][1] \notin keys
                 THEN For([j \in 1..(Len(l) - 1) |-> IF j < i THEN l[j] ELSE l[j + 1]], i + 1)
                 ELSE For(l, i + 1)
    IN  For(list, 1)

\* AdjacencyList.remove_vertex; order is the order of the keys of the dict
AdjacencyList_remove_vertex(order, vertex) ==
    LET g == ThisGraph
        keys == vertices \ {vertex}
        RECURSIVE Each(_, _)
        Each(ks, al) ==
            IF ks = <<>> THEN Done([g EXCEPT !.vertices = keys, !.adjacency_list = al])
            ELSE LET r == _update_edges(al[Head(ks)], keys)
                     al2 == [al EXCEPT ![Head(ks)] = r.val]
                 IN  IF r.ok THEN Each(Tail(ks), al2)
                     ELSE Failed(r.err, [g EXCEPT !.vertices = keys, !.adjacency_list = al2])
    IN  IF vertex \notin vertices THEN Failed("VertexDoesNotExistError", g)
        ELSE Each(SetOrder(keys, order), [k \in keys |-> adjacency_list[k]])

\* AdjacencyMatrix.add_edge
\* An add_edge without the test for an existing edge: the cell is overwritten.
overwriting_add_edge(vertex1, vertex2, weight) ==
    IF vertex1 \notin VertexKeys \/ vertex2 \notin VertexKeys
    THEN Failed("VertexDoesNotExistError", ThisGraph)
    ELSE Done([ThisGraph EXCEPT !.adjacency_matrix =
                  SetCell(adjacency_matrix, Index(vertex1), Index(vertex2), update_weight(weight))])

AdjacencyMatrix_add_edge(vertex1, vertex2, weight) ==
    LET g == ThisGraph
        m1 == SetCell(adjacency_matrix, Index(vertex1), Index(vertex2), update_weight(weight))
    IN  IF vertex1 \notin VertexKeys \/ vertex2 \notin VertexKeys
        THEN Failed("VertexDoesNotExistError", g)
        ELSE IF Cell(vertex1, vertex2) # 0 THEN Failed("NeighborAlreadyExistsError", g)
        ELSE Done([g EXCEPT !.adjacency_matrix =
                      IF ~directed /\ vertex1 # vertex2 /\ Cell(vertex2, vertex1) = 0
                      THEN SetCell(m1, Index(vertex2), Index(vertex1), update_weight(weight))
                      ELSE m1])

\* AdjacencyMatrix.remove_edge
AdjacencyMatrix_remove_edge(vertex1, vertex2, weight) ==
    LET g == ThisGraph
        m1 == SetCell(adjacency_matrix, Index(vertex1), Index(vertex2), 0)
    IN  IF vertex1 \notin VertexKeys \/ vertex2 \notin VertexKeys
        THEN Failed("VertexDoesNotExistError", g)
        ELSE IF Cell(vertex1, vertex2) = 0 THEN Failed("NeighborDoesNotExistError", g)
        ELSE Done([g EXCEPT !.adjacency_matrix =
                      IF ~directed /\ vertex1 # vertex2 /\ Cell(vertex2, vertex1) # 0
                      THEN SetCell(m1, Index(vertex2), Index(vertex1), 0)
                      ELSE m1])

\* AdjacencyMatrix.remove_vertex: the row and the column of the vertex are
\* deleted and the remaining keys are numbered anew in their order
AdjacencyMatrix_remove_vertex(vertex) ==
    LET g == ThisGraph
        at == Index(vertex) + 1
        n == Len(vertices)
        Skip(i) == IF i < at THEN i ELSE i + 1
    IN  IF vertex \notin VertexKeys THEN Failed("VertexDoesNotExistError", g)
        ELSE Done([g EXCEPT !.vertices = [i \in 1..(n - 1) |-> vertices[Skip(i)]],
                            !.adjacency_matrix = [i \in 1..(n - 1) |-> [j \in 1..(n - 1) |->
                                                     adjacency_matrix[Skip(i)][Skip(j)]]]])

\* the mutators of the graph at hand
add_edge_call(vertex1, vertex2, weight) ==
    CASE type \in {UG, WG} -> BaseGraph_add_edge(vertex1, vertex2, weight)
      [] type = AL -> AdjacencyList_add_edge(vertex1, vertex2, weight)
      [] type = AM -> AdjacencyMatrix_add_edge(vertex1, vertex2, weight)

remove_edge(vertex1, vertex2, weight) ==
    CASE type \in {UG, WG} -> BaseGraph_remove_edge(vertex1, vertex2, weight)
      [] type = AL -> AdjacencyList_remove_edge(vertex1, vertex2, weight)
      [] type = AM -> AdjacencyMatrix_remove_edge(vertex1, vertex2, weight)

remove_vertex(order, vertex) ==
    CASE type \in {UG, WG} -> Graph_remove_vertex(vertex)
      [] type = AL -> AdjacencyList_remove_vertex(order, vertex)
      [] type = AM -> AdjacencyMatrix_remove_vertex(vertex)

\* ------------------------------------------------- matrix construction
\* AdjacencyMatrix.__init__: an empty matrix; a request for multiple edges is
\* refused after the fields were set.
AdjacencyMatrix_init(is_directed, want_multiple_edges) ==
    IF want_multiple_edges THEN Raise("AdjacencyMatrixOperationError")
    ELSE Return([directed |-> is_directed, multiple_edges |-> FALSE,
                 vertices |-> <<>>, adjacency_matrix |-> <<>>])

\* ------------------------------------------------- matrix back to graph
\* Conversions.adjacency_matrix_to_graph on the matrix am: the keys become the
\* vertices of a directed simple graph, every entry get_vertex reports is added
\* as an edge (an unweighted cell with weight 0 when weighted), and the
\* directed flag is copied last.  get_vertex reports the neighbor of a column
\* as self.vertices[entry], the position of the key that equals the column
\* index.
adjacency_matrix_to_graph(am, is_directed, weighted) ==
    LET order == am.vertices
        keys == Range(order)
        t == IF weighted THEN WG ELSE UG
        n == Len(order)
        Reported(col) == IndexOf(order, col - 1) - 1
        RECURSIVE Edges(_, _, _)
        Edges(nbs, i, col) ==
            IF i > n THEN Return([type |-> t, directed |-> is_directed, multiple_edges |-> FALSE,
                                  vertices |-> keys, neighbors |-> nbs])
            ELSE IF col > n THEN Edges(nbs, i + 1, 1)
            ELSE LET row == am.adjacency_matrix[i]
                     weight == decode_cell(row[col])
                 IN  IF \E c \in 1..n : row[c] # 0 /\ (c - 1) \notin keys THEN Raise("KeyError")
                     ELSE IF row[col] = 0 THEN Edges(nbs, i, col + 1)
                     ELSE IF Reported(col) \notin keys THEN Raise("VertexDoesNotExistError")
                     ELSE IF ~insert_neighbor_ok(t, FALSE, nbs[order[i]], Reported(col))
                     THEN Raise("NeighborAlreadyExistsError")
                     ELSE Edges([nbs EXCEPT ![order[i]] =
                                    insert_neighbor(t, FALSE, @, Reported(col),
                                        IF ~weighted THEN None
                                        ELSE IF weight = None THEN 0 ELSE weight)],
                                i, col + 1)
    IN  Edges([k \in keys |-> EmptyNeighbors(t, FALSE)], 1, 1)

\* ------------------------------------------------------ Util.create_*
\* Util.create_unweighted_graph / create_weighted_graph / create_adjacency_list:
\* the representation is built as a directed graph with multiple edges, an
\* undirected edge is added in both directions, and only the multiple_edges
\* field of the graph is assigned at the end.  The value returned is
\* [type, directed, multiple_edges, node_multiple_edges, vertices, neighbors]:
\* node_multiple_edges is the flag the nodes were created with, which decides
\* the shape of their neighbors field; neighbors is the adjacency_list of an
\* AdjacencyList.
Util_create(t, is_directed, vertex_list, edges) ==
    LET Has(g, v1, v2) ==
            IF t = AL THEN \E i \in 1..Len(g.neighbors[v1]) : g.neighbors[v1][i][1] = v2
            ELSE is_neighbor(t, TRUE, g.neighbors[v1], v2)
        Add(g, v1, v2, weight) ==
            [g EXCEPT !.neighbors[v1] =
                IF t = AL THEN Append(@, <<v2, weight>>)
                ELSE insert_neighbor(t, TRUE, @, v2, IF weight = None THEN 0 ELSE weight)]
        RECURSIVE Vertices(_, _)
        Vertices(g, vs) ==
            IF vs = <<>> THEN Return(g)
            ELSE IF Head(vs) \in g.vertices THEN Raise("VertexAlreadyExistsError")
            ELSE Vertices([g EXCEPT !.vertices = @ \cup {Head(vs)},
                                    !.neighbors = @ @@ (Head(vs) :> EmptyNeighbors(t, TRUE))],
                          Tail(vs))
        RECURSIVE Edges(_, _)
        Edges(g, es) ==
            IF es = <<>> THEN Return(g)
            ELSE LET vertex1 == Head(es)[1]
                     vertex2 == Head(es)[2]
                     weight == Head(es)[3]
                 IN  IF vertex1 \notin g.vertices \/ vertex2 \notin g.vertices
                     THEN Raise("VertexDoesNotExistError")
                     ELSE LET multi == \/ g.multiple_edges
                                       \/ Has(g, vertex1, vertex2)
                                       \/ (~is_directed /\ Has(g, vertex2, vertex1))
                              g1 == Add(g, vertex1, vertex2, weight)
                              g2 == IF is_directed THEN g1 ELSE Add(g1, vertex2, vertex1, weight)
                          IN  Edges([g2 EXCEPT !.multiple_edges = multi], Tail(es))
        built == Vertices([type |-> t, directed |-> TRUE, multiple_edges |-> FALSE,
                           node_multiple_edges |-> TRUE, vertices |-> {}, neighbors |-> <<>>],
                          vertex_list)
    IN  IF ~built.ok THEN built ELSE Edges(built.val, edges)

create_adjacency_list(is_directed, vertex_list, edges) == Util_create(AL, is_directed, vertex_list, edges)
create_weighted_graph(is_directed, vertex_list, edges) == Util_create(WG, is_directed, vertex_list, edges)
create_unweighted_graph(is_directed, vertex_list, edges) == Util_create(UG, is_directed, vertex_list, edges)

\* ---------------------------------------------------------------- union
\* UnweightedGraphNode.union: the neighbors of the other node are added; with
\* multiple edges of its own the node changes the counts of dict(self.neighbors),
\* a copy, and keeps its neighbors as they were.
UnweightedGraphNode_union(self_multi, other_multi, nbs, onbs) ==
    IF ~self_multi /\ ~other_multi THEN nbs \cup onbs
    ELSE IF ~self_multi THEN nbs \cup Range(DictKeys(onbs))
    ELSE nbs

\* WeightedGraphNode.union: a simple node keeps the smaller weight of a common
\* neighbor, a node with multiple edges appends the other weights
WeightedGraphNode_union(self_multi, other_multi, nbs, onbs) ==
    LET OtherMin(k) == IF other_multi THEN SetMin(Range(DictGet(onbs, k))) ELSE DictGet(onbs, k)
        OtherList(k) == IF other_multi THEN DictGet(onbs, k) ELSE <<DictGet(onbs, k)>>
        common == [i \in 1..Len(nbs) |->
                     IF ~DictHas(onbs, nbs[i].nbr) THEN nbs[i]
                     ELSE [nbr |-> nbs[i].nbr,
                           val |-> IF self_multi THEN nbs[i].val \o OtherList(nbs[i].nbr)
                                   ELSE Min(nbs[i].val, OtherMin(nbs[i].nbr))]]
        RECURSIVE New(_)
        New(d) ==
            IF d = <<>> THEN <<>>
            ELSE IF DictHas(nbs, Head(d).nbr) THEN New(Tail(d))
            ELSE <<[nbr |-> Head(d).nbr,
                    val |-> IF self_multi THEN OtherList(Head(d).nbr) ELSE OtherMin(Head(d).nbr)]>>
                 \o New(Tail(d))
    IN  common \o New(onbs)

\* update_multiple_edges of a node copied from a graph with the other setting
update_multiple_edges(t, h, nbs, multi) ==
    IF t = UG
    THEN IF multi THEN [i \in 1..Cardinality(nbs) |-> [nbr |-> SetOrder(nbs, h)[i], val |-> 1]]
         ELSE Range(DictKeys(nbs))
    ELSE [i \in 1..Len(nbs) |->
             [nbr |-> nbs[i].nbr,
              val |-> IF multi THEN <<nbs[i].val>> ELSE SetMin(Range(nbs[i].val))]]

\* BaseGraph.union: a vertex only the other graph has is added as the node
\* object of the other graph itself (as a converted deep copy when the two
\* multiple_edges settings differ); a common vertex is joined node by node
BaseGraph_union(h) ==
    LET keys == other.vertices
        same == other.multiple_edges = multiple_edges
        Joined(k) ==
            IF type = UG
            THEN UnweightedGraphNode_union(multiple_edges, other.multiple_edges,
                                           neighbors[k], other.neighbors[k])
            ELSE WeightedGraphNode_union(multiple_edges, other.multiple_edges,
                                         neighbors[k], other.neighbors[k])
        n1 == [k \in vertices \cup keys |->
                 IF k \notin vertices
                 THEN IF same THEN other.neighbors[k]
                      ELSE update_multiple_edges(type, h, other.neighbors[k], multiple_edges)
                 ELSE IF k \in keys THEN Joined(k) ELSE neighbors[k]]
        shared1 == other.shared \cup (IF same THEN keys \ vertices ELSE {})
    IN  [ok |-> TRUE, err |-> "",
         g |-> [ThisGraph EXCEPT !.vertices = vertices \cup keys, !.neighbors = n1],
         other |-> [other EXCEPT !.shared = shared1,
                        !.neighbors = [k \in DOMAIN @ |-> IF k \in shared1 THEN n1[k] ELSE @[k]]]]

\* list(set(tuple(edge) ...)): the entries of S in the iteration order of the
\* set, drawn from the orders a ranking h of the neighbors and a direction of
\* the weights give
RECURSIVE OrderPairs(_, _, _)
OrderPairs(S, h, down) ==
    IF S = {} THEN <<>>
    ELSE LET Less(p, q) ==
                 \/ IndexOf(h, p[1]) < IndexOf(h, q[1])
                 \/ p[1] = q[1] /\ (IF down THEN p[2] > q[2] ELSE p[2] < q[2])
             first == CHOOSE p \in S : \A q \in S \ {p} : Less(p, q)
         IN  <<first>> \o OrderPairs(S \ {first}, h, down)

\* AdjacencyList.union: without multiple edges the two lists of a vertex are
\* merged and equal [neighbor, weight] entries kept once; with multiple edges
\* the other list is appended, and a vertex only the other graph has gets the
\* list object of the other graph itself
AdjacencyList_union(h, down) ==
    LET keys == other.vertices
        l1 == [k \in vertices \cup keys |->
                 IF ~multiple_edges
                 THEN IF k \in vertices /\ k \in keys
                      THEN OrderPairs(Range(adjacency_list[k] \o other.adjacency_list[k]), h, down)
                      ELSE IF k \in vertices THEN adjacency_list[k]
                      ELSE OrderPairs(Range(other.adjacency_list[k]), h, down)
                 ELSE IF k \in vertices /\ k \in keys
                      THEN adjacency_list[k] \o other.adjacency_list[k]
                      ELSE IF k \in vertices THEN adjacency_list[k]
                      ELSE other.adjacency_list[k]]
        shared1 == other.shared \cup (IF multiple_edges THEN keys \ vertices ELSE {})
    IN  [ok |-> TRUE, err |-> "",
         g |-> [ThisGraph EXCEPT !.vertices = vertices \cup keys, !.adjacency_list = l1],
         other |-> [other EXCEPT !.shared = shared1,
                        !.adjacency_list = [k \in DOMAIN @ |-> IF k \in shared1 THEN l1[k] ELSE @[k]]]]

\* an AdjacencyList joined with itself would extend each list by itself
union(h, down) ==
    IF type = AL THEN AdjacencyList_union(h, down) ELSE BaseGraph_union(h)

\* ------------------------------------------------ unimplemented algorithms
\* ShortestPaths.johnsons: the raise is the first statement
johnsons == Raise("AlgorithmNotImplementedError")

\* arborescence without its directedness test
not_implemented == Raise("AlgorithmNotImplementedError")

\* MSTs.arborescence: the directedness test precedes the raise
arborescence ==
    IF ~directed THEN Raise("UnsupportedGraphTypeError")
    ELSE Raise("AlgorithmNotImplementedError")

\* ------------------------------------------------------- algorithm calls
\* articulation_points and bridges as they would be with a conversion that
\* turns the caller's directed graph itself into the undirected one
converted_in_place(name, h) ==
    LET c == directed_to_undirected(h)
    IN  IF name \in {"articulation_points", "bridges"} /\ directed /\ c.ok
        THEN [directed |-> FALSE, multiple_edges |-> multiple_edges] @@ c.val
        ELSE [directed |-> directed, multiple_edges |-> multiple_edges] @@ ThisGraph

\* The graph the caller holds when an algorithm call is over.  The algorithm
\* classes read the graph they were given and assign to none of its fields:
\* on a directed graph articulation_points and bridges rebind the field
\* _graph of the Cuts object to the graph Conversions.directed_to_undirected
\* built, and the cycle search writes to the list get_vertex built.
caller_graph(name, h) ==
    [directed |-> directed, multiple_edges |-> multiple_edges] @@ ThisGraph

Holds(g) ==
    /\ directed' = g.directed
    /\ multiple_edges' = g.multiple_edges
    /\ vertices' = g.vertices
    /\ neighbors' = g.neighbors
    /\ adjacency_list' = g.adjacency_list
    /\ adjacency_matrix' = g.adjacency_matrix

Called(name, arg, h, r) ==
    /\ NoCall
    /\ result' = [op |-> name, start |-> arg, ok |-> r.ok, err |-> r.err, out |-> r.val]
    /\ Holds(caller_graph(name, h))
    /\ UNCHANGED <<type, default_weight, other>>

StartArgs(K) == K \cup {None}

Bft(K) == \E s \in StartArgs(K), h \in HashOrders : Called("bft", s, h, bft(h, s))
Dft(K) == \E s \in StartArgs(K), h \in HashOrders : Called("dft", s, h, dft(h, s))
GetNeighbors ==
    \E node \in VertexKeys, h \in HashOrders :
        Called("_get_neighbors", node, h, Return(_get_neighbors(h, node)))
Topological == \E h \in HashOrders : Called("topological", None, h, topological(h))
DetectCycle == \E h \in HashOrders : Called("detect_cycle", None, h, detect_cycle(h))

\* ------------------------------------------------------- specifications
\* keys and weights of the runs: a negative key, the key 0, and keys that are
\* not the positions 0..n-1; a missing weight, the weight 0, a positive weight
SmallKeys == {-1, 0, 1}
SmallWeights == {None, 0, 1}

NextTraversals ==
    \/ Grow(SmallKeys, SmallWeights, MaxVertices, MaxEdges)
    \/ Bft(SmallKeys)
    \/ Dft(SmallKeys)
    \/ GetNeighbors
    \/ Topological
    \/ DetectCycle

SpecTraversals == Construct(Types, BOOLEAN, BOOLEAN) /\ [][NextTraversals]_vars

\* cycles: the keys 1, 2, 3 of the documented scenarios, and room for a triangle
PosKeys == {1, 2, 3}

NextCycles ==
    \/ Grow(PosKeys, {None, 1}, MaxVertices, MaxEdges + 1)
    \/ DetectCycle

SpecCycles == Construct(Types, BOOLEAN, BOOLEAN) /\ [][NextCycles]_vars

\* shortest paths from a source: non-negative weights
Dijkstras(K) == \E s \in StartArgs(K), h \in HashOrders : Called("dijkstras", s, h, dijkstras(h, s))

NextDijkstra ==
    \/ Grow(SmallKeys, {None, 0, 2}, MaxVertices, MaxEdges)
    \/ Dijkstras(SmallKeys)

SpecDijkstra == Construct({UG, WG, AL}, BOOLEAN, BOOLEAN) /\ [][NextDijkstra]_vars

\* spanning trees: undirected weighted graphs on the documented keys 1, 2, 3
PrimsMst(K) == \E s \in StartArgs(K), h \in HashOrders : Called("prims_mst", s, h, prims_mst(h, s))
KruskalsMst == \E h \in HashOrders : Called("kruskals_mst", None, h, kruskals_mst(h))

NextMSTs ==
    \/ Grow(PosKeys, {1, 2}, MaxVertices, MaxEdges + 1)
    \/ PrimsMst(PosKeys)
    \/ KruskalsMst

SpecMSTs == Construct(Types, {FALSE}, {FALSE}) /\ [][NextMSTs]_vars

\* cuts: every ranking of the sets of the graph and of its undirected conversion
CutsOrders(h) == IF directed THEN HashOrders ELSE {h}
ArticulationPoints ==
    \E h \in HashOrders : \E h2 \in CutsOrders(h) :
        Called("articulation_points", None, h, articulation_points(h, h2))
Bridges ==
    \E h \in HashOrders : \E h2 \in CutsOrders(h) : Called("bridges", None, h, bridges(h, h2))

NextCuts ==
    \/ Grow(PosKeys, {1}, MaxVertices, MaxEdges + 1)
    \/ ArticulationPoints
    \/ Bridges

SpecCuts == Construct(Types, BOOLEAN, BOOLEAN) /\ [][NextCuts]_vars

\* all-pairs distances: keys that are not the positions 0..n-1, the weight 0
\* and a negative weight
FloydWarshall == \E h \in HashOrders : Called("floyd_warshall", None, h, floyd_warshall(h))

NextFloyd ==
    \/ Grow(SmallKeys, {-1, 0, 1}, MaxVertices, MaxEdges)
    \/ FloydWarshall

SpecFloyd == Construct(Types, BOOLEAN, BOOLEAN) /\ [][NextFloyd]_vars

\* single-source distances with negative weights
BellmanFord(K) ==
    \E s \in StartArgs(K), h \in HashOrders : Called("bellman_ford", s, h, bellman_ford(h, s))

NextBellman ==
    \/ Grow(SmallKeys, {-1, 1}, MaxVertices, MaxEdges)
    \/ BellmanFord(SmallKeys)

SpecBellman == Construct(Types, BOOLEAN, BOOLEAN) /\ [][NextBellman]_vars

\* negative cycles: the weight 0 next to a negative weight
DetectNegativeCycle ==
    \E h \in HashOrders : Called("detect_negative_cycle", None, h, detect_negative_cycle(h))

NextNegativeCycle ==
    \/ Grow(SmallKeys, {-1, 0, 1}, MaxVertices, MaxEdges)
    \/ DetectNegativeCycle

SpecNegativeCycle == Construct(Types, BOOLEAN, BOOLEAN) /\ [][NextNegativeCycle]_vars

\* Hamiltonian cycles: room for a triangle
HamiltonianCycle(K) ==
    \E s \in StartArgs(K), h \in HashOrders :
        Called("hamiltonian_cycle", s, h, hamiltonian_cycle(h, s))

NextHamiltonian ==
    \/ Grow(PosKeys, {1}, MaxVertices, MaxEdges + 1)
    \/ HamiltonianCycle(PosKeys)

SpecHamiltonian == Construct(Types, BOOLEAN, BOOLEAN) /\ [][NextHamiltonian]_vars

\* searches: a call with a target and a start
Searched(name, target, start, r) ==
    /\ NoCall
    /\ result' = [op |-> name, target |-> target, start |-> start,
                  ok |-> r.ok, err |-> r.err, out |-> r.val]
    /\ Holds(caller_graph(name, <<>>))
    /\ UNCHANGED <<type, default_weight, other>>

BfsTo(K) == \E t \in StartArgs(K), s \in StartArgs(K), h \in HashOrders : Searched("bfs", t, s, bfs(h, t, s))
DfsTo(K) == \E t \in StartArgs(K), s \in StartArgs(K), h \in HashOrders : Searched("dfs", t, s, dfs(h, t, s))

NextSearch ==
    \/ Grow(SmallKeys, {None, 1}, MaxVertices, MaxEdges)
    \/ BfsTo(SmallKeys)
    \/ DfsTo(SmallKeys)

SpecSearch == Construct(Types, BOOLEAN, BOOLEAN) /\ [][NextSearch]_vars

\* unimplemented algorithms and unsupported graphs
Johnsons == \E r \in {johnsons} : Called("johnsons", None, <<>>, r)
Arborescence == \E r \in {arborescence} : Called("arborescence", None, <<>>, r)

NextUnsupported ==
    \/ Grow(SmallKeys, {1}, MaxVertices, MaxEdges)
    \/ Johnsons
    \/ Arborescence
    \/ Topological
    \/ PrimsMst(SmallKeys)
    \/ KruskalsMst

SpecUnsupported == Construct(Types, BOOLEAN, BOOLEAN) /\ [][NextUnsupported]_vars

\* The second graph after a mutator call on the first one left it as r.g: a
\* node or list object that both graphs hold shows the change in both.
\* AdjacencyList.remove_edge gives vertex1 a new list (a copy of the old one
\* without the edge), which ends the sharing of that list.
Aliased(name, args, r) ==
    LET rebound == IF type = AL /\ name = "remove_edge" /\ r.ok /\ (directed \/ args[1] # args[2])
                   THEN {args[1]} ELSE {}
        live == (other.shared \ rebound) \cap r.g.vertices
    IN  [other EXCEPT
            !.shared = IF type = AL /\ name = "remove_edge" /\ r.ok
                       THEN (@ \ {args[1]}) \cap r.g.vertices ELSE @ \cap r.g.vertices,
            !.neighbors = [k \in DOMAIN @ |-> IF k \in live /\ type # AL THEN r.g.neighbors[k] ELSE @[k]],
            !.adjacency_list = [k \in DOMAIN @ |-> IF k \in live /\ type = AL THEN r.g.adjacency_list[k] ELSE @[k]]]

\* mutator calls, successful or not: the graph the call leaves and how it ended
Mutate(name, args, r) ==
    /\ vertices' = r.g.vertices
    /\ neighbors' = r.g.neighbors
    /\ adjacency_list' = r.g.adjacency_list
    /\ adjacency_matrix' = r.g.adjacency_matrix
    /\ result' = [op |-> name, start |-> args, ok |-> r.ok, err |-> r.err, out |-> <<>>]
    /\ other' = Aliased(name, args, r)
    /\ UNCHANGED <<type, directed, multiple_edges, default_weight>>

AddVertex(K) ==
    \E k \in K :
        /\ k \in VertexKeys \/ NumVertices < MaxVertices
        /\ Mutate("add_vertex", <<k>>, Graph_add_vertex(k))

AddEdge(K, W) ==
    \E k1 \in K, k2 \in K, w \in WeightArgs(W) :
        LET r == add_edge_call(k1, k2, w)
        IN  /\ ~r.ok \/ EdgeRoom(k1, k2, MaxEdges)
            /\ Mutate("add_edge", <<k1, k2, w>>, r)

RemoveEdge(K, W) ==
    \E k1 \in K, k2 \in K, w \in WeightArgs(W) :
        Mutate("remove_edge", <<k1, k2, w>>, remove_edge(k1, k2, w))

RemoveVertex(K) ==
    \E k \in K, order \in HashOrders :
        Mutate("remove_vertex", <<k>>, remove_vertex(order, k))

\* any sequence of mutator calls
NextMutators ==
    \/ AddVertex(PosKeys)
    \/ AddEdge(PosKeys, {1})
    \/ RemoveEdge(PosKeys, {1})
    \/ RemoveVertex(PosKeys)

SpecMutators == Construct(Types, BOOLEAN, BOOLEAN) /\ [][NextMutators]_vars

\* sequences of successful add_vertex, add_edge and remove_edge calls on an
\* undirected graph: a call that raises ends the run
Succeeded == IF result.op = "none" THEN TRUE ELSE result.ok

NextEdges ==
    \/ Succeeded /\ AddVertex({1, 2})
    \/ Succeeded /\ AddEdge({1, 2}, {None, 0, 1})
    \/ Succeeded /\ RemoveEdge({1, 2}, {None, 0, 1})

SpecEdges == Construct(Types, {FALSE}, BOOLEAN) /\ [][NextEdges]_vars

\* Single-source algorithms with a named or a default source.
NextSources ==
    \/ Grow(SmallKeys, {1}, MaxVertices, MaxEdges)
    \/ Bft(SmallKeys) \/ Dijkstras(SmallKeys) \/ PrimsMst(SmallKeys) \/ BellmanFord(SmallKeys)

SpecSources == Construct(Types, BOOLEAN, {FALSE}) /\ [][NextSources]_vars

\* The caller replaces its matrix by a newly constructed one; when the
\* constructor raises there is no new object and the old one stays.
ConstructMatrix(D, M) ==
    \E d \in D, m \in M :
        LET r == AdjacencyMatrix_init(d, m)
        IN  /\ type = AM
            /\ result' = [op |-> "AdjacencyMatrix", start |-> <<d, m>>,
                          ok |-> r.ok, err |-> r.err, out |-> <<>>]
            /\ IF r.ok
               THEN /\ directed' = r.val.directed
                    /\ multiple_edges' = r.val.multiple_edges
                    /\ vertices' = r.val.vertices
                    /\ adjacency_matrix' = r.val.adjacency_matrix
               ELSE UNCHANGED <<directed, multiple_edges, vertices, adjacency_matrix>>
            /\ UNCHANGED <<type, default_weight, neighbors, adjacency_list, other>>

GetVertex(K) ==
    \E k \in K :
        LET r == get_vertex(k)
        IN  /\ type \in {AL, AM}
            /\ result' = [op |-> "get_vertex", start |-> k, ok |-> r.ok, err |-> r.err, out |-> r.val]
            /\ UNCHANGED <<graphVars, other>>

\* Matrices built, filled and read back by any sequence of calls.
MatrixKeys == {0, 1}
MatrixWeights == {None, -1, 0, 1}
NextMatrix ==
    \/ ConstructMatrix(BOOLEAN, BOOLEAN)
    \/ AddVertex(MatrixKeys)
    \/ AddEdge(MatrixKeys, MatrixWeights)
    \/ GetVertex(MatrixKeys)

SpecMatrix == Construct({AM}, BOOLEAN, {FALSE}) /\ [][NextMatrix]_vars

\* A node graph converted to a matrix and back.
RoundTrip ==
    \E h \in HashOrders, weighted \in BOOLEAN :
        /\ type \in {UG, WG}
        /\ Called("adjacency_matrix_to_graph", weighted, h,
                  adjacency_matrix_to_graph(graph_to_adjacency_matrix(h), directed, weighted))

NextRoundTrip ==
    \/ Grow(SmallKeys, {None, 1}, MaxVertices, MaxEdges)
    \/ RoundTrip

SpecRoundTrip == Construct({UG, WG}, BOOLEAN, BOOLEAN) /\ [][NextRoundTrip]_vars

\* Representations created from a vertex list and an edge list.
CreateKeys == {1, 2}
CreateWeights == {None, 1, 2}
MaxCreateEdges == 2
CreateEdges == {<<v1, v2, w>> : v1 \in CreateKeys, v2 \in CreateKeys, w \in CreateWeights}
VertexLists == {<<>>, <<1>>, <<1, 2>>, <<2, 1>>}
EdgeLists == UNION {[1..n -> CreateEdges] : n \in 0..MaxCreateEdges}

CreateAdjacencyList ==
    \E d \in BOOLEAN, vs \in VertexLists, es \in EdgeLists :
        Called("create_adjacency_list", <<d, vs, es>>, <<>>, create_adjacency_list(d, vs, es))
CreateWeightedGraph ==
    \E d \in BOOLEAN, vs \in VertexLists, es \in EdgeLists :
        Called("create_weighted_graph", <<d, vs, es>>, <<>>, create_weighted_graph(d, vs, es))
CreateUnweightedGraph ==
    \E d \in BOOLEAN, vs \in VertexLists, es \in EdgeLists :
        Called("create_unweighted_graph", <<d, vs, es>>, <<>>, create_unweighted_graph(d, vs, es))

NextCreate == CreateAdjacencyList \/ CreateWeightedGraph \/ CreateUnweightedGraph

SpecCreate == Construct({UG}, {TRUE}, {FALSE}) /\ [][NextCreate]_vars

\* Two graphs of one class: the caller builds both, joins the first with the
\* second and then changes the first with one more call.
ConstructTwo(T, D, M) ==
    /\ type \in T
    /\ directed \in D
    /\ multiple_edges \in M
    /\ default_weight = 0
    /\ vertices = {}
    /\ neighbors = <<>>
    /\ adjacency_list = <<>>
    /\ adjacency_matrix = <<>>
    /\ result = [op |-> "none"]
    /\ other \in {[NoOther EXCEPT !.multiple_edges = m] : m \in M}

\* the caller turns to its other graph: the two exchange their places
TurnToOther ==
    /\ NoCall
    /\ vertices' = other.vertices
    /\ neighbors' = other.neighbors
    /\ adjacency_list' = other.adjacency_list
    /\ multiple_edges' = other.multiple_edges
    /\ other' = [vertices |-> vertices, neighbors |-> neighbors,
                 adjacency_list |-> adjacency_list, multiple_edges |-> multiple_edges,
                 shared |-> other.shared]
    /\ UNCHANGED <<type, directed, default_weight, adjacency_matrix, result>>

Union ==
    \E h \in Perms(VertexKeys \cup other.vertices), down \in BOOLEAN :
        LET r == union(h, down)
        IN  /\ NoCall
            /\ vertices' = r.g.vertices
            /\ neighbors' = r.g.neighbors
            /\ adjacency_list' = r.g.adjacency_list
            /\ other' = r.other
            /\ result' = [op |-> "union", start |-> <<>>, ok |-> r.ok, err |-> r.err, out |-> <<>>]
            /\ UNCHANGED <<type, directed, multiple_edges, default_weight, adjacency_matrix>>

AfterUnion == result.op = "union"
UnionKeys == {1, 2}
UnionWeights == {1, 2}
MaxUnionVertices == 2
MaxUnionEdges == 1
NextUnion ==
    \/ Grow(UnionKeys, UnionWeights, MaxUnionVertices, MaxUnionEdges)
    \/ TurnToOther
    \/ Union
    \/ AfterUnion /\ AddEdge(UnionKeys, UnionWeights)
    \/ AfterUnion /\ RemoveEdge(UnionKeys, UnionWeights)
    \/ AfterUnion /\ RemoveVertex(UnionKeys)

SpecUnion == ConstructTwo({UG, WG, AL}, BOOLEAN, BOOLEAN) /\ [][NextUnion]_vars

\* Algorithms of the five algorithm classes, called on any graph over two keys.
AlgorithmKeys == {1, 2}
NextAlgorithms ==
    \/ Grow(AlgorithmKeys, {1}, MaxVertices, MaxEdges)
    \/ Bft(AlgorithmKeys) \/ Dft(AlgorithmKeys) \/ BfsTo(AlgorithmKeys) \/ DfsTo(AlgorithmKeys)
    \/ Topological \/ Dijkstras(AlgorithmKeys) \/ FloydWarshall
    \/ PrimsMst(AlgorithmKeys) \/ KruskalsMst
    \/ DetectCycle \/ HamiltonianCycle(AlgorithmKeys)
    \/ ArticulationPoints \/ Bridges

SpecAlgorithms == Construct(Types, BOOLEAN, BOOLEAN) /\ [][NextAlgorithms]_vars

Next ==
    \/ Build \/ Bft(Keys) \/ Dft(Keys) \/ GetNeighbors \/ Topological \/ DetectCycle
    \/ Dijkstras(Keys) \/ PrimsMst(Keys) \/ KruskalsMst
    \/ ArticulationPoints \/ Bridges \/ FloydWarshall \/ BellmanFord(Keys)
    \/ DetectNegativeCycle \/ HamiltonianCycle(Keys)
    \/ BfsTo(Keys) \/ DfsTo(Keys) \/ Johnsons \/ Arborescence
    \/ AddVertex(Keys) \/ AddEdge(Keys, Weights \cup {None})
    \/ RemoveEdge(Keys, Weights \cup {None}) \/ RemoveVertex(Keys)
    \/ ConstructMatrix(BOOLEAN, BOOLEAN) \/ GetVertex(Keys)
    \/ RoundTrip
    \/ CreateAdjacencyList \/ CreateWeightedGraph \/ CreateUnweightedGraph
    \/ TurnToOther \/ Union

Spec == Init /\ [][Next]_vars

\* ------------------------------------------------------ graph vocabulary
\* the keys u has an edge to, read off the representation
Nbrs(u) ==
    CASE type = UG /\ ~multiple_edges -> neighbors[u]
      [] type = UG /\ multiple_edges -> Range(DictKeys(neighbors[u]))
      [] type = WG -> Range(DictKeys(neighbors[u]))
      [] type = AL -> {adjacency_list[u][i][1] : i \in 1..Len(adjacency_list[u])}
      [] type = AM -> {v \in VertexKeys : Cell(u, v) # 0}

\* the vertices reachable from the set S along edges
RECURSIVE ReachFrom(_)
ReachFrom(S) ==
    LET T == S \cup UNION {Nbrs(u) : u \in S}
    IN  IF T = S THEN S ELSE ReachFrom(T)

\* the vertices reachable from u by at least one edge
ReachPlus(u) == ReachFrom(Nbrs(u))

Connected == \A u \in VertexKeys : ReachFrom({u}) = VertexKeys
Acyclic == \A u \in VertexKeys : u \notin ReachPlus(u)
SelfLoop == \E u \in VertexKeys : u \in Nbrs(u)
IsPermutation(seq, S) == Range(seq) = S /\ Len(seq) = Cardinality(S)

\* --------------------------------------------------------------- claims
\* C1: on an undirected graph, bft(start) and dft(start) from a vertex of the
\* graph return a list that begins with start and holds every vertex exactly
\* once when the graph is connected, and raise IncompleteTraversalError when it
\* is not.
C1_TraversalFromStart ==
    (result.op \in {"bft", "dft"} /\ ~directed /\ result.start \in VertexKeys) =>
        IF Connected
        THEN result.ok /\ result.out[1] = result.start /\ IsPermutation(result.out, VertexKeys)
        ELSE ~result.ok /\ result.err = "IncompleteTraversalError"

\* C2: on a simple graph in any representation, _get_neighbors(v) lists the
\* neighbor keys in ascending order of (weight with None lowest, neighbor key).
EdgeWeight(u, v) ==
    CASE type = UG -> None
      [] type = WG -> DictGet(neighbors[u], v)
      [] type = AL -> adjacency_list[u][CHOOSE i \in 1..Len(adjacency_list[u]) :
                                            adjacency_list[u][i][1] = v][2]
      [] type = AM -> decode_cell(Cell(u, v))

C2_NeighborsSorted ==
    (result.op = "_get_neighbors" /\ ~multiple_edges) =>
        LET u == result.start
            nb == SortedSet(Nbrs(u))
        IN  result.out = SortByWeightThenKey([i \in 1..Len(nb) |-> <<nb[i], EdgeWeight(u, nb[i])>>])

\* C3: on a directed acyclic graph, topological() returns a list that holds
\* every vertex exactly once, with u before v for every edge u -> v.
C3_TopologicalOrder ==
    (result.op = "topological" /\ directed /\ Acyclic) =>
        /\ result.ok
        /\ IsPermutation(result.out, VertexKeys)
        /\ \A u \in VertexKeys : \A v \in Nbrs(u) :
              IndexOf(result.out, u) < IndexOf(result.out, v)

\* C4: dijkstras(source) on an UnweightedGraph, WeightedGraph or AdjacencyList
\* whose weights are all non-negative (an edge without weight counts 1) returns
\* [source, map]; the keys of map are exactly the vertices reachable from
\* source and each value is the least total weight of a path to that vertex.
EdgeCosts(u, v) ==
    CASE type = UG -> {1}
      [] type = WG /\ ~multiple_edges -> {DictGet(neighbors[u], v)}
      [] type = WG /\ multiple_edges -> Range(DictGet(neighbors[u], v))
      [] type = AL -> {IF adjacency_list[u][i][2] = None THEN 1 ELSE adjacency_list[u][i][2] :
                          i \in {j \in 1..Len(adjacency_list[u]) : adjacency_list[u][j][1] = v}}
      [] type = AM -> {IF decode_cell(Cell(u, v)) = None THEN 1 ELSE decode_cell(Cell(u, v))}

NonNegative == \A u \in VertexKeys : \A v \in Nbrs(u) : \A c \in EdgeCosts(u, v) : c >= 0

\* least total weight of a path from source to each vertex, inf when there is none
RECURSIVE Relax(_, _)
Relax(d, rounds) ==
    IF rounds = 0 THEN d
    ELSE Relax([v \in VertexKeys |->
                   SetMin({d[v]} \cup UNION {{d[u] + c : c \in EdgeCosts(u, v)} :
                                               u \in {x \in VertexKeys : d[x] # inf /\ v \in Nbrs(x)}})],
               rounds - 1)

Distance(source) == Relax([v \in VertexKeys |-> IF v = source THEN 0 ELSE inf], NumVertices)

C4_Dijkstra ==
    (result.op = "dijkstras" /\ type \in {UG, WG, AL} /\ result.start \in VertexKeys /\ NonNegative) =>
        /\ result.ok
        /\ result.out[1] = result.start
        /\ LET map == result.out[2]
           IN  /\ {map[i][1] : i \in 1..Len(map)} = ReachFrom({result.start})
               /\ \A i \in 1..Len(map) : map[i][2] = Distance(result.start)[map[i][1]]

\* C5: on a connected, undirected, simple graph with integer weights and any
\* integer keys, prims_mst and kruskals_mst both return normally, report the
\* total weight of a minimum spanning tree, and list |V| - 1 tree edges.
UndirectedEdges == {e \in VertexKeys \X VertexKeys : e[1] < e[2] /\ e[2] \in Nbrs(e[1])}

Spans(T) ==
    LET RECURSIVE Grown(_)
        Grown(S) == LET N == S \cup {e[2] : e \in {x \in T : x[1] \in S}}
                               \cup {e[1] : e \in {x \in T : x[2] \in S}}
                    IN  IF N = S THEN S ELSE Grown(N)
    IN  VertexKeys = {} \/ \E v \in VertexKeys : Grown({v}) = VertexKeys

TreeWeight(T) == SumOver(T, [e \in T |-> EdgeWeight(e[1], e[2])])

MinSpanningWeight ==
    SetMin({TreeWeight(T) : T \in {X \in SUBSET UndirectedEdges :
                                      Cardinality(X) = NumVertices - 1 /\ Spans(X)}})

C5_MSTsAgree ==
    (/\ result.op \in {"prims_mst", "kruskals_mst"}
     /\ type \in {WG, AL, AM} /\ ~directed /\ ~multiple_edges /\ ~SelfLoop
     /\ NumVertices > 0 /\ Connected
     /\ result.start \in VertexKeys \cup {None}) =>
        /\ result.ok
        /\ result.out[1] = MinSpanningWeight
        /\ Len(result.out[2]) = NumVertices - 1

\* the number of edges stored from u to v
Multiplicity(u, v) ==
    CASE type = UG /\ ~multiple_edges -> IF v \in neighbors[u] THEN 1 ELSE 0
      [] type = UG /\ multiple_edges -> IF DictHas(neighbors[u], v) THEN DictGet(neighbors[u], v) ELSE 0
      [] type = WG /\ ~multiple_edges -> IF DictHas(neighbors[u], v) THEN 1 ELSE 0
      [] type = WG /\ multiple_edges -> IF DictHas(neighbors[u], v) THEN Len(DictGet(neighbors[u], v)) ELSE 0
      [] type = AL -> Cardinality({i \in 1..Len(adjacency_list[u]) : adjacency_list[u][i][1] = v})
      [] type = AM -> IF Cell(u, v) # 0 THEN 1 ELSE 0

\* the undirected view: the vertices joined to u by an edge in either direction
UNbrs(u) == {v \in VertexKeys \ {u} : v \in Nbrs(u) \/ u \in Nbrs(v)}

\* the vertices of V reachable from S inside V, the edge between a and b unused
RECURSIVE ReachIn(_, _, _, _)
ReachIn(S, V, a, b) ==
    LET Step(x) == (UNbrs(x) \cap V) \ (IF x = a THEN {b} ELSE IF x = b THEN {a} ELSE {})
        T == S \cup UNION {Step(x) : x \in S}
    IN  IF T = S THEN S ELSE ReachIn(T, V, a, b)

\* the number of connected components of the undirected view on V without
\* the edge between a and b
RECURSIVE Components(_, _, _)
Components(V, a, b) ==
    IF V = {} THEN 0
    ELSE LET x == CHOOSE y \in V : TRUE
         IN  1 + Components(V \ ReachIn({x}, V, a, b), a, b)

CutVertices ==
    {v \in VertexKeys : Components(VertexKeys \ {v}, v, v) > Components(VertexKeys, v, v)}

\* C6: on an undirected graph articulation_points() returns, sorted and
\* without duplicates, exactly the vertices whose removal increases the number
\* of connected components; a DFS root with a single child is not among them.
C6_ArticulationPoints ==
    (result.op = "articulation_points" /\ ~directed) =>
        result.ok /\ result.out = SortedSet(CutVertices)

\* the number of edges between u and v in the undirected conversion
UMultiplicity(u, v) ==
    IF ~directed THEN Multiplicity(u, v)
    ELSE IF multiple_edges THEN Multiplicity(u, v) + Multiplicity(v, u)
    ELSE IF Multiplicity(u, v) + Multiplicity(v, u) > 0 THEN 1 ELSE 0

CutEdges ==
    {e \in SUBSET VertexKeys :
        /\ Cardinality(e) = 2
        /\ \E u \in e : \E v \in e \ {u} :
              /\ UMultiplicity(u, v) = 1
              /\ Components(VertexKeys, u, v) > Components(VertexKeys, u, u)}

\* C7: bridges() returns, each once, exactly the edges whose removal increases
\* the number of connected components of the undirected conversion: no edge of
\* a cycle and no edge with a parallel twin; a directed input, one with both
\* u->v and v->u included, does not make it raise.
C7_Bridges ==
    result.op = "bridges" =>
        /\ result.ok
        /\ {{result.out[i][1], result.out[i][2]} : i \in 1..Len(result.out)} = CutEdges
        /\ Len(result.out) = Cardinality(CutEdges)

\* C8: detect_cycle() returns found = TRUE exactly when the graph has a cycle:
\* a directed cycle (a self-loop included) in a directed graph; in an undirected
\* graph a cycle through at least three distinct vertices or, with multiple
\* edges enabled, a pair of parallel edges or a self-loop.  On an undirected
\* tree it returns found = FALSE.

\* the vertices reachable from S when the edge between a and b is not used
RECURSIVE ReachWithout(_, _, _)
ReachWithout(S, a, b) ==
    LET Step(x) == Nbrs(x) \ (IF x = a THEN {b} ELSE IF x = b THEN {a} ELSE {})
        T == S \cup UNION {Step(x) : x \in S}
    IN  IF T = S THEN S ELSE ReachWithout(T, a, b)

ParallelEdges == \E u \in VertexKeys : \E v \in Nbrs(u) : u # v /\ Multiplicity(u, v) > 1
LongCycle == \E u \in VertexKeys : \E v \in Nbrs(u) : u # v /\ v \in ReachWithout({u}, u, v)

HasCycle ==
    IF directed THEN ~Acyclic
    ELSE LongCycle \/ (multiple_edges /\ (ParallelEdges \/ SelfLoop))

C8_DetectCycle ==
    (result.op = "detect_cycle" /\ (directed \/ multiple_edges \/ ~SelfLoop)) =>
        result.ok /\ result.out[1] = HasCycle


\* a closed walk of negative total weight
NegativeCycle == \E u \in VertexKeys : Distance(u)[u] < 0

\* the distance floyd_warshall returned for the pair u, v
OutDist(u, v) ==
    LET ks == SortedSet(VertexKeys)
    IN  result.out[IndexOf(ks, u)][2][IndexOf(ks, v)][2]

\* C9: for any set of integer vertex keys floyd_warshall() returns one entry
\* per vertex, in ascending key order, each listing one [other, distance] pair
\* per vertex in ascending key order; before relaxation the distance of a
\* directly connected pair is the stored weight of the edge (0 stays 0) and
\* that of an unconnected pair is infinite; without a negative cycle every
\* self-distance is 0.
C9_FloydWarshall ==
    result.op = "floyd_warshall" =>
        LET ks == SortedSet(VertexKeys)
        IN  /\ result.ok
            /\ [r \in 1..Len(result.out) |-> result.out[r][1]] = ks
            /\ \A r \in 1..Len(ks) : [c \in 1..Len(result.out[r][2]) |-> result.out[r][2][c][1]] = ks
            /\ \A h \in HashOrders : \A i \in 1..Len(ks) : \A j \in (1..Len(ks)) \ {i} :
                  floyd_distances(h)[i][j] =
                      IF ks[j] \in Nbrs(ks[i]) THEN SetMin(EdgeCosts(ks[i], ks[j])) ELSE inf
            /\ ~NegativeCycle => \A u \in VertexKeys : OutDist(u, u) = 0

Symmetric == \A u \in VertexKeys : \A v \in VertexKeys : OutDist(u, v) = OutDist(v, u)

Triangle ==
    \A i \in VertexKeys : \A j \in VertexKeys : \A k \in VertexKeys :
        (OutDist(i, k) # inf /\ OutDist(k, j) # inf) => OutDist(i, j) <= OutDist(i, k) + OutDist(k, j)

NoMissingWeight ==
    CASE type \in {UG, WG} -> TRUE
      [] type = AL -> \A u \in VertexKeys : \A i \in 1..Len(adjacency_list[u]) :
                          adjacency_list[u][i][2] # None
      [] type = AM -> \A u \in VertexKeys : \A v \in VertexKeys : Cell(u, v) # 1

\* C11: on a graph without a negative cycle bellman_ford(source), source a
\* vertex of the graph, returns distance 0 for the source, the least path
\* weight for every vertex reachable from it along the edges of the graph (an
\* undirected edge in both directions), and infinity for the rest.
C11_BellmanFord ==
    (result.op = "bellman_ford" /\ result.start \in VertexKeys
        /\ NoMissingWeight /\ ~NegativeCycle) =>
        LET ks == SortedSet(VertexKeys)
        IN  /\ result.ok
            /\ result.out = [i \in 1..Len(ks) |-> <<ks[i], Distance(result.start)[ks[i]]>>]


\* C12: detect_negative_cycle() returns TRUE exactly when the graph has a
\* cycle of negative total weight, and FALSE when no weight is negative.
C12_DetectNegativeCycle ==
    result.op = "detect_negative_cycle" => result.ok /\ result.out = NegativeCycle


\* a closed walk from start that visits every other vertex exactly once
IsHamiltonian(path) ==
    /\ Len(path) = NumVertices + 1
    /\ path[Len(path)] = path[1]
    /\ IsPermutation(SubSeq(path, 1, NumVertices), VertexKeys)
    /\ \A i \in 1..NumVertices : path[i + 1] \in Nbrs(path[i])

Hamiltonian ==
    \E p \in Perms(VertexKeys) : IsHamiltonian([i \in 1..(NumVertices + 1) |->
                                                   IF i <= NumVertices THEN p[i] ELSE p[1]])

\* C13: on a graph with at least one vertex hamiltonian_cycle(start), start a
\* vertex of the graph or defaulted, returns [True, path] exactly when the
\* graph has a Hamiltonian cycle, path starting and ending with the start
\* vertex, holding every other vertex once and following edges; otherwise it
\* returns [False, None].
C13_HamiltonianCycle ==
    (result.op = "hamiltonian_cycle" /\ NumVertices > 0 /\ result.start \in VertexKeys \cup {None}) =>
        /\ result.ok
        /\ IF Hamiltonian
           THEN /\ result.out[1] = TRUE
                /\ IsHamiltonian(result.out[2])
                /\ result.start # None => result.out[2][1] = result.start
           ELSE result.out = <<FALSE, None>>


NoRepeat(seq) == \A i \in 1..Len(seq) : \A j \in 1..Len(seq) : i # j => seq[i] # seq[j]

\* a visit sequence from start cut off at the target
SearchPath(seq) ==
    /\ seq[1] = result.start
    /\ NoRepeat(seq)
    /\ Range(seq) \subseteq ReachFrom({result.start})
    /\ \A i \in 1..(Len(seq) - 1) : seq[i] # result.target
    /\ IF result.target \in ReachFrom({result.start})
       THEN seq[Len(seq)] = result.target
       ELSE Range(seq) = ReachFrom({result.start})

\* C14: bfs(target, start), both vertices of the graph, returns a list that
\* begins with start, repeats no vertex and ends with target when target is
\* reachable from start; when it is not, the list holds the vertices reachable
\* from start and the call does not raise.
C14_Bfs ==
    (result.op = "bfs" /\ result.start \in VertexKeys /\ result.target \in VertexKeys) =>
        result.ok /\ SearchPath(result.out)

\* C15: dfs(target, start), both vertices of the graph, returns on each of the
\* four representations the visit sequence from start that stops when target
\* is visited: no vertex follows target, and target is last when reachable.
C15_Dfs ==
    (result.op = "dfs" /\ result.start \in VertexKeys /\ result.target \in VertexKeys) =>
        result.ok /\ SearchPath(result.out)


\* C16 as stated: johnsons() and arborescence() raise
\* AlgorithmNotImplementedError on every graph, directed or undirected.
C16_Original ==
    result.op \in {"johnsons", "arborescence"} =>
        ~result.ok /\ result.err = "AlgorithmNotImplementedError"

\* C16: johnsons() raises AlgorithmNotImplementedError on every graph;
\* arborescence() raises it on every directed graph and raises
\* UnsupportedGraphTypeError on every undirected graph; neither call returns
\* a result or changes the graph.
C16_NotImplemented ==
    [][(result'.op \in {"johnsons", "arborescence"} /\ result.op = "none") =>
          /\ UNCHANGED graphVars
          /\ ~result'.ok
          /\ result'.out = <<>>
          /\ result'.err = IF result'.op = "arborescence" /\ ~directed
                           THEN "UnsupportedGraphTypeError"
                           ELSE "AlgorithmNotImplementedError"]_vars

C16_Witness ==
    /\ result.op \in {"johnsons", "arborescence"}
    /\ directed
    /\ \E u \in VertexKeys : \E v \in Nbrs(u) : u # v


\* C17: topological() on an undirected graph or on a directed graph with a
\* cycle, and prims_mst() and kruskals_mst() on a directed graph, raise
\* UnsupportedGraphTypeError and return no result.
C17_Unsupported ==
    ((result.op = "topological" /\ (~directed \/ ~Acyclic))
        \/ (result.op \in {"prims_mst", "kruskals_mst"} /\ directed)) =>
        ~result.ok /\ result.err = "UnsupportedGraphTypeError" /\ result.out = <<>>

C17_Witness ==
    /\ result.op = "topological"
    /\ directed
    /\ \E u \in VertexKeys : \E v \in Nbrs(u) : u # v /\ u \in Nbrs(v)


\* the vertices joined to the vertices of S by the edges of the list mst
RECURSIVE JoinedBy(_, _)
JoinedBy(S, mst) ==
    LET T == S \cup {e[2] : e \in {x \in Range(mst) : x[1] \in S}}
               \cup {e[1] : e \in {x \in Range(mst) : x[2] \in S}}
    IN  IF T = S THEN S ELSE JoinedBy(T, mst)

\* C18: kruskals_mst() on a disconnected undirected weighted graph returns
\* normally a list of edges of the graph with fewer than |V|-1 edges, in which
\* no edge joins two vertices that the edges before it already connect (so
\* the list holds no cycle), and which connects exactly the vertices that
\* the graph connects (a spanning forest).
C18_KruskalForest ==
    (/\ result.op = "kruskals_mst"
     /\ type \in {WG, AL, AM} /\ ~directed /\ ~Connected) =>
        /\ result.ok
        /\ LET mst == result.out[2]
           IN  /\ Len(mst) < NumVertices - 1
               /\ \A i \in 1..Len(mst) :
                     /\ mst[i][2] \in Nbrs(mst[i][1])
                     /\ mst[i][2] \notin JoinedBy({mst[i][1]}, SubSeq(mst, 1, i - 1))
               /\ \A u \in VertexKeys : JoinedBy({u}, mst) = ReachFrom({u})


\* C19: after any sequence of add_vertex, add_edge, remove_edge and
\* remove_vertex calls, every neighbor key stored in the graph names a vertex
\* that is present, and a remove_vertex call of a present vertex returns
\* normally (the only way it raises is VertexDoesNotExistError for an absent
\* one), so that no edge to or from the removed vertex is left.
NoDangling == \A u \in VertexKeys : Nbrs(u) \subseteq VertexKeys

C19_NoPhantomEdges ==
    /\ NoDangling
    /\ result.op = "remove_vertex" => result.err \in {"", "VertexDoesNotExistError"}

\* the weights of the edges stored from u to v, one per stored edge
StoredWeights(u, v) ==
    CASE type = UG /\ ~multiple_edges -> IF v \in neighbors[u] THEN <<None>> ELSE <<>>
      [] type = UG /\ multiple_edges -> [i \in 1..Multiplicity(u, v) |-> None]
      [] type = WG /\ ~multiple_edges -> IF DictHas(neighbors[u], v) THEN <<DictGet(neighbors[u], v)>> ELSE <<>>
      [] type = WG /\ multiple_edges -> IF DictHas(neighbors[u], v) THEN DictGet(neighbors[u], v) ELSE <<>>
      [] type = AL -> LET to == SelectSeq(adjacency_list[u], LAMBDA e : e[1] = v)
                      IN  [i \in 1..Len(to) |-> to[i][2]]
      [] type = AM -> IF Cell(u, v) = 0 THEN <<>>
                      ELSE IF Cell(u, v) = 1 THEN <<None>>
                      ELSE IF Cell(u, v) > 0 THEN <<Cell(u, v) - 2>>
                      ELSE <<Cell(u, v)>>

Count(seq, x) == Cardinality({i \in 1..Len(seq) : seq[i] = x})

SameEdges(u, v) ==
    \A w \in Range(StoredWeights(u, v)) \cup Range(StoredWeights(v, u)) :
        Count(StoredWeights(u, v), w) = Count(StoredWeights(v, u), w)

\* C20: in an undirected graph, after any sequence of successful add_edge and
\* remove_edge calls, the edges stored from u to v and those stored from v to
\* u have the same weights with the same multiplicities, and a successful
\* add_edge(u, u) stores the self-loop once.
C20_UndirectedSymmetry ==
    /\ []((~directed /\ Succeeded) => \A u \in VertexKeys : \A v \in VertexKeys : SameEdges(u, v))
    /\ [][\A u \in PosKeys :
             (/\ ~directed /\ Succeeded
              /\ result'.op = "add_edge" /\ result'.ok
              /\ result'.start[1] = u /\ result'.start[2] = u) =>
                 Len(StoredWeights(u, u))' = Len(StoredWeights(u, u)) + 1]_vars


\* C28: an add_edge or remove_edge call that raises NeighborAlreadyExistsError
\* or NeighborDoesNotExistError leaves the vertex set and every vertex's
\* neighbors as they were before the call, on every representation.
C28_FailedCallChangesNothing ==
    [][(/\ result'.op \in {"add_edge", "remove_edge"}
        /\ result'.err \in {"NeighborAlreadyExistsError", "NeighborDoesNotExistError"}) =>
           UNCHANGED graphVars]_vars


\* The source a single-source call has to work from: the vertex the caller
\* named, or the minimum-keyed vertex when the caller named none.
Source == IF result.start = None THEN SetMin(VertexKeys) ELSE result.start

\* C30: a single-source algorithm that returns works from the vertex the
\* caller named, or from the minimum-keyed vertex when none was named: bft and
\* dijkstras report it first, prims_mst grows its first edge from it and
\* bellman_ford gives it the distance 0.
C30_SourceVertex ==
    (/\ result.op \in {"bft", "dijkstras", "prims_mst", "bellman_ford"}
     /\ result.ok /\ NumVertices > 0
     /\ result.start \in VertexKeys \cup {None}) =>
        CASE result.op = "bft" -> result.out[1] = Source
          [] result.op = "dijkstras" -> result.out[1] = Source
          [] result.op = "prims_mst" ->
                result.out[2] = <<>> \/ result.out[2][1][1] = Source
          [] OTHER -> \E i \in 1..Len(result.out) : result.out[i] = <<Source, 0>>


\* A returned value that is None itself (a list holding None is not).
IsNone(x) == ToString(x) = ToString(None)

\* A closed walk of the graph: it ends where it began and every step follows
\* an edge.
ClosedWalk(seq) ==
    /\ Len(seq) >= 2 /\ seq[1] = seq[Len(seq)]
    /\ \A i \in 1..(Len(seq) - 1) : seq[i] \in VertexKeys /\ seq[i + 1] \in Nbrs(seq[i])

\* C27: when detect_cycle reports a cycle, the list it returns is a closed
\* walk of the graph; when it reports none, the second component is None, on
\* every representation.
C27_CycleIsClosedWalk ==
    (result.op = "detect_cycle" /\ result.ok) =>
        IF result.out[1] THEN ClosedWalk(result.out[2]) ELSE IsNone(result.out[2])


\* The cell the encoding rule assigns to a weight: 1 for an unweighted edge,
\* weight + 2 for a weight >= 0, weight - 2 for a weight < 0.
ClaimedCell(weight) ==
    IF weight = None THEN 1 ELSE IF weight >= 0 THEN weight + 2 ELSE weight - 2

\* C21: a successful AdjacencyMatrix.add_edge(u, v, weight) stores the cell of
\* the encoding rule (1 unweighted, weight + 2 for weight >= 0, weight - 2 for
\* weight < 0), and get_vertex(u) called next reads the edge to v back with
\* the weight that was stored.
C21_MatrixEncoding ==
    /\ [](type = AM /\ result.op = "add_edge" /\ result.ok =>
            Cell(result.start[1], result.start[2]) = ClaimedCell(result.start[3]))
    /\ [][(/\ type = AM /\ result.op = "add_edge" /\ result.ok
            /\ result'.op = "get_vertex" /\ result'.start = result.start[1]) =>
               /\ result'.ok
               /\ \E i \in 1..Len(result'.out) :
                      result'.out[i] = <<result.start[2], result.start[3]>>]_vars


\* C22: an AdjacencyMatrix never holds more than one edge per ordered pair:
\* its multiple_edges flag is never set, constructing one with multiple edges
\* requested raises AdjacencyMatrixOperationError and gives no matrix, and
\* add_edge on an ordered pair that already has an edge raises
\* NeighborAlreadyExistsError and leaves the matrix as it was.
C22_OneEdgePerPair ==
    /\ [](type = AM => ~multiple_edges)
    /\ [][(result'.op = "AdjacencyMatrix" /\ result'.start[2]) =>
              /\ ~result'.ok /\ result'.err = "AdjacencyMatrixOperationError"
              /\ UNCHANGED graphVars]_vars
    /\ [][\A u \in VertexKeys, v \in VertexKeys :
              (/\ type = AM /\ Cell(u, v) # 0
               /\ result'.op = "add_edge" /\ result'.start[1] = u /\ result'.start[2] = v) =>
                  /\ result'.err = "NeighborAlreadyExistsError"
                  /\ UNCHANGED graphVars]_vars

\* add_edge was refused on a pair whose cell holds another weight
C22_Witness ==
    /\ type = AM /\ result.op = "add_edge"
    /\ result.err = "NeighborAlreadyExistsError"
    /\ Cell(result.start[1], result.start[2]) \notin {0, update_weight(result.start[3])}


\* the vertices a graph value g reaches from the set S along its edges
RECURSIVE ReachInGraph(_, _)
ReachInGraph(g, S) ==
    LET Out(u) == IF g.type = UG THEN g.neighbors[u] ELSE Range(DictKeys(g.neighbors[u]))
        T == S \cup UNION {Out(u) : u \in S}
    IN  IF T = S THEN S ELSE ReachInGraph(g, T)

\* C24: converting a node graph to an adjacency matrix and back returns
\* normally, whatever the integer keys, a graph with the same vertex set, the
\* same directedness and the same reachability between vertices.
C24_RoundTrip ==
    result.op = "adjacency_matrix_to_graph" =>
        /\ result.ok
        /\ result.out.vertices = vertices
        /\ result.out.directed = directed
        /\ \A u \in vertices : ReachInGraph(result.out, {u}) = ReachFrom({u})


\* The neighbor keys a created representation g stores for the vertex u.
CreatedNbrs(g, u) ==
    IF g.type = AL THEN {g.neighbors[u][i][1] : i \in 1..Len(g.neighbors[u])}
    ELSE Range(DictKeys(g.neighbors[u]))

\* Some edge of the list repeats the target of an earlier edge for the same
\* source, or, when undirected, is the reverse pair of an earlier edge.
RepeatsEdge(is_directed, edges) ==
    \E i \in 1..Len(edges), j \in 1..Len(edges) :
        /\ i < j
        /\ \/ edges[i][1] = edges[j][1] /\ edges[i][2] = edges[j][2]
           \/ ~is_directed /\ edges[i][1] = edges[j][2] /\ edges[i][2] = edges[j][1]

\* C26: Util.create_adjacency_list, create_weighted_graph and
\* create_unweighted_graph, given distinct vertices and edges between them,
\* return a representation that holds these vertices and edges, whose directed
\* flag is the one requested, whose multiple_edges flag is true exactly when
\* an edge of the list repeats, and whose stored neighbors have the shape that
\* flag announces.
C26_Create ==
    LET d == result.start[1]
        vs == result.start[2]
        es == result.start[3]
        g == result.out
    IN  (/\ result.op \in {"create_adjacency_list", "create_weighted_graph", "create_unweighted_graph"}
         /\ \A e \in Range(es) : e[1] \in Range(vs) /\ e[2] \in Range(vs)) =>
            /\ result.ok
            /\ g.vertices = Range(vs)
            /\ \A e \in Range(es) :
                  /\ e[2] \in CreatedNbrs(g, e[1])
                  /\ ~d => e[1] \in CreatedNbrs(g, e[2])
            /\ g.multiple_edges = RepeatsEdge(d, es)
            /\ g.directed = d
            /\ (g.type # AL /\ g.vertices # {}) => g.node_multiple_edges = g.multiple_edges


\* The edges the second graph stores from u to v.
OtherMultiplicity(u, v) ==
    IF u \notin other.vertices THEN 0
    ELSE CASE type = UG /\ ~other.multiple_edges -> IF v \in other.neighbors[u] THEN 1 ELSE 0
           [] type = UG /\ other.multiple_edges ->
                IF DictHas(other.neighbors[u], v) THEN DictGet(other.neighbors[u], v) ELSE 0
           [] type = WG /\ ~other.multiple_edges -> IF DictHas(other.neighbors[u], v) THEN 1 ELSE 0
           [] type = WG /\ other.multiple_edges ->
                IF DictHas(other.neighbors[u], v) THEN Len(DictGet(other.neighbors[u], v)) ELSE 0
           [] type = AL ->
                Cardinality({i \in 1..Len(other.adjacency_list[u]) : other.adjacency_list[u][i][1] = v})

OwnMultiplicity(u, v) == IF u \notin vertices THEN 0 ELSE Multiplicity(u, v)

\* C23: the union of two graphs without multiple edges leaves every vertex at
\* most one entry per neighbor, and the union of two graphs with multiple
\* edges stores from u to v as many edges as the two graphs stored together.
C23_UnionMultiplicity ==
    [][result'.op = "union" =>
          /\ (~multiple_edges /\ ~other.multiple_edges) =>
                \A u \in vertices', v \in vertices' : Multiplicity(u, v)' <= 1
          /\ (multiple_edges /\ other.multiple_edges) =>
                \A u \in vertices', v \in vertices' :
                    Multiplicity(u, v)' = OwnMultiplicity(u, v) + OtherMultiplicity(u, v)]_vars

\* The vertices and neighbor collections of the second graph.
OtherContent ==
    [vertices |-> other.vertices, neighbors |-> other.neighbors,
     adjacency_list |-> other.adjacency_list]

\* C29: the union leaves the second graph as it was, and so does the add_edge,
\* remove_edge or remove_vertex call made on the first graph after the union.
C29_UnionKeepsApart ==
    [][(result'.op = "union" \/ result.op = "union") => OtherContent' = OtherContent]_vars


AlgorithmCalls ==
    {"bft", "dft", "bfs", "dfs", "topological", "dijkstras", "floyd_warshall", "bellman_ford",
     "prims_mst", "kruskals_mst", "detect_cycle", "detect_negative_cycle", "hamiltonian_cycle",
     "articulation_points", "bridges"}

=============================================================================
